---------------------------- MODULE Spec2Model ----------------------------
(***************************************************************************)
(* Model of the composable-dra-driver (cdi_dra) manager:                   *)
(*   - the reconciliation pass of pkg/manager (startCheckResourcePoolLoop, *)
(*     manageCDIResourceSlices, updatePool, generatePool,                  *)
(*     manageCDINodeLabel) driven by the wait.Until loop, and              *)
(*   - the cached identity-manager token source of pkg/client              *)
(*     (cachedIMTokenSource.Token).                                        *)
(* Go pointers that may be nil are modelled as sequences of length <= 1:   *)
(* <<>> is nil and <<v>> points to v.  Go maps are functions whose DOMAIN  *)
(* is the key set.  A Go error is a string, "" being the nil error.        *)
(***************************************************************************)
EXTENDS Integers, Sequences, FiniteSets, TLC

(***************************************************************************)
(* Bounds of the model.                                                    *)
(***************************************************************************)
\* largest device count the fabric manager reports for the varying model
MaxAvail == 1
\* a new pass starts only while every pool generation is below this cap
MaxGen == 2
\* number of tokens the identity manager issues
MaxTokens == 3
\* the wall clock advances by TickSeconds up to MaxTime (seconds)
TickSeconds == 15
MaxTime == 30

(***************************************************************************)
(* Generic helpers.                                                        *)
(***************************************************************************)
Nil == <<>>

Ptr(v) == <<v>>

IsNil(p) == p = <<>>

Deref(p) == p[1]

NoErr == ""

EmptyMap == <<>>

\* m[k] = v on a Go map
MapSet(m, k, v) == [x \in DOMAIN m \cup {k} |-> IF x = k THEN v ELSE m[x]]

\* delete(m, k) on a Go map
MapDelete(m, k) == [x \in DOMAIN m \ {k} |-> m[x]]

\* m[k] on a map[string]string: the zero value "" when the key is missing
MapGetStr(m, k) == IF k \in DOMAIN m THEN m[k] ELSE ""

\* slices.Contains
Contains(s, e) == \E i \in 1..Len(s) : s[i] = e

\* all orders in which the keys of a Go map can be ranged over
Perms(S) ==
    {p \in [1..Cardinality(S) -> S] : \A i, j \in 1..Cardinality(S) : p[i] = p[j] => i = j}

Digits == <<"0", "1", "2", "3", "4", "5", "6", "7", "8", "9">>

RECURSIVE ItoaNat(_)
ItoaNat(n) == IF n < 10 THEN Digits[n + 1] ELSE ItoaNat(n \div 10) \o Digits[(n % 10) + 1]

\* strconv.Itoa, and %d of fmt.Sprintf
Itoa(n) == IF n < 0 THEN "-" \o ItoaNat(0 - n) ELSE ItoaNat(n)

(***************************************************************************)
(* Program constants.                                                      *)
(***************************************************************************)
GpuDeviceType == "gpu"

\* the goroutines that call Token() on the shared token source
Callers == {"g1", "g2"}

\* marginTime of CachedIMTokenSource, in seconds
MarginTime == 30

(***************************************************************************)
(* The device catalog (config.DeviceInfo) as the tests create it.          *)
(***************************************************************************)
DevInfo1 ==
    [CDIModelName |-> "DEVICE 1", DRAAttributes |-> [productName |-> "TEST DEVICE 1"],
     DriverName |-> "test-driver-1", K8sDeviceName |-> "test-device-1"]

DevInfo3 ==
    [CDIModelName |-> "DEVICE 3", DRAAttributes |-> [productName |-> "TEST DEVICE 3"],
     DriverName |-> "test-driver-2", K8sDeviceName |-> "test-device-3"]

VARIABLES
    \* CDIManager fields, fixed by StartCDIManager
    deviceInfos, labelPrefix, cdiOptions,
    \* CDIManager.namedDriverResources: driver name -> [Pools: pool name -> Pool]
    namedDriverResources,
    \* the cluster's Node objects: node name -> label map
    nodeLabels,
    \* position of the wait.Until loop / of startCheckResourcePoolLoop
    pc,
    \* locals of startCheckResourcePoolLoop
    muuids, mList, nodeGroups, ngInfos, machines, fabricFound, nodeGroupFound, idx, err,
    \* the device objects the pass allocated: address -> device
    heap,
    \* calls made in the current pass: to the collaborators, to the
    \* ResourceSlice controllers (Update) and to the API server (node Update)
    calls, published, nodeUpdates,
    \* the pools and node labels as they were when the current pass began
    atStart,
    \* what the previous pass ended with
    prev,
    \* cachedIMTokenSource.token and .mu (the holder, or ""), the wall clock, and
    \* every goroutine calling Token() with its position and locals
    tsToken, mu, now, callers,
    \* the goroutines inside newIMTokenSource.Token(), the number of tokens issued,
    \* and per cached token the successful refreshes made by callers that read it
    refreshing, issued, refreshCalls,
    \* the process around the manager (main.go): the position of main, the
    \* command line, the context, errChan, the exit code, the ResourceSlice
    \* controllers started
    proc,
    \* one call of idManagerTokenSource.Token(): the secret read, the position,
    \* the result
    im

\* what no step of a pass and no step of the token cache changes
cfgVars == <<deviceInfos, labelPrefix, cdiOptions, proc, im>>

localVars == <<muuids, mList, nodeGroups, ngInfos, machines, fabricFound, nodeGroupFound, idx, heap>>

logVars == <<calls, published, nodeUpdates>>

tokenVars == <<tsToken, mu, now, callers, refreshing, issued, refreshCalls>>

managerVars ==
    <<cfgVars, namedDriverResources, nodeLabels, pc, localVars, err, logVars, atStart, prev>>

vars == <<managerVars, tokenVars>>

(***************************************************************************)
(* Pools: generatePool and updatePool.                                     *)
(***************************************************************************)
\* the zero value of resourceslice.Pool, read for a missing map key
ZeroPool == [NodeSelector |-> <<>>, Slices |-> <<>>, Generation |-> 0]

PoolGet(pools, poolName) == IF poolName \in DOMAIN pools THEN pools[poolName] ELSE ZeroPool

DeviceAttributes(device) ==
    [k \in {"type"} \cup DOMAIN device.draAttributes |->
        IF k \in DOMAIN device.draAttributes THEN device.draAttributes[k] ELSE GpuDeviceType]

\* a generatePool that numbers the device entries from 1
GenerateDevice_FromOne(device, i) ==
    [Name |-> device.k8sDeviceName \o "-gpu" \o Itoa(i + 1),
     Attributes |-> DeviceAttributes(device),
     UsageRestrictedToNode |-> TRUE,
     BindingConditions |-> <<"FabricDeviceReady">>,
     BindingFailureConditions |-> <<"FabricDeviceReschedule", "FabricDeviceFailed">>,
     BindingTimeoutSeconds |-> device.bindingTimeout]

GenerateDevice(device, i) ==
    [Name |-> device.k8sDeviceName \o "-gpu" \o Itoa(i),
     Attributes |-> DeviceAttributes(device),
     UsageRestrictedToNode |-> TRUE,
     BindingConditions |-> <<"FabricDeviceReady">>,
     BindingFailureConditions |-> <<"FabricDeviceReschedule", "FabricDeviceFailed">>,
     BindingTimeoutSeconds |-> device.bindingTimeout]

NodeSelectorFor(prefix, device, fabricID) ==
    <<[Key |-> prefix \o "/" \o device.k8sDeviceName, Operator |-> "In", Values |-> <<"true">>],
      [Key |-> prefix \o "/" \o "fabric", Operator |-> "In", Values |-> <<Itoa(fabricID)>>]>>

\* a generatePool that makes no slice when no device is available
generatePool_EmptyWhenNone(prefix, device, fabricID, generation) ==
    [NodeSelector |-> NodeSelectorFor(prefix, device, fabricID),
     Slices |-> IF device.availableDeviceCount = 0 THEN <<>>
                ELSE <<[Devices |-> [i \in 1..device.availableDeviceCount |-> GenerateDevice(device, i - 1)]]>>,
     Generation |-> generation]

generatePool(prefix, device, fabricID, generation) ==
    [NodeSelector |-> NodeSelectorFor(prefix, device, fabricID),
     Slices |-> <<[Devices |-> [i \in 1..device.availableDeviceCount |-> GenerateDevice(device, i - 1)]]>>,
     Generation |-> generation]

PoolName(device, fabricID) == device.k8sDeviceName \o "-fabric" \o Itoa(fabricID)

\* an updatePool that regenerates the entries without raising the generation
updatePool_KeepGeneration(ndr, prefix, driverName, poolName, device, fabricID) ==
    LET pool == PoolGet(ndr[driverName].Pools, poolName)
        put(p) == [ndr EXCEPT ![driverName].Pools = MapSet(@, poolName, p)]
    IN  IF Len(pool.Slices) = 0
        THEN [ndr |-> put(generatePool(prefix, device, fabricID, 1)), updated |-> TRUE]
        ELSE IF Len(pool.Slices[1].Devices) # device.availableDeviceCount
             THEN [ndr |-> put(generatePool(prefix, device, fabricID, pool.Generation)),
                   updated |-> TRUE]
             ELSE [ndr |-> ndr, updated |-> FALSE]

\* an updatePool that regenerates the pool whatever it holds
updatePool_Regenerate(ndr, prefix, driverName, poolName, device, fabricID) ==
    LET pool == PoolGet(ndr[driverName].Pools, poolName)
        put(p) == [ndr EXCEPT ![driverName].Pools = MapSet(@, poolName, p)]
    IN  IF Len(pool.Slices) = 0
        THEN [ndr |-> put(generatePool(prefix, device, fabricID, 1)), updated |-> TRUE]
        ELSE [ndr |-> put(generatePool(prefix, device, fabricID, pool.Generation + 1)),
              updated |-> TRUE]

\* updatePool: the new namedDriverResources and the returned flag
updatePool(ndr, prefix, driverName, poolName, device, fabricID) ==
    LET pool == PoolGet(ndr[driverName].Pools, poolName)
        put(p) == [ndr EXCEPT ![driverName].Pools = MapSet(@, poolName, p)]
    IN  IF Len(pool.Slices) = 0
        THEN [ndr |-> put(generatePool(prefix, device, fabricID, 1)), updated |-> TRUE]
        ELSE IF Len(pool.Slices[1].Devices) # device.availableDeviceCount
             THEN [ndr |-> put(generatePool(prefix, device, fabricID, pool.Generation + 1)),
                   updated |-> TRUE]
             ELSE [ndr |-> ndr, updated |-> FALSE]

\* initDriverResources: one empty pool set per distinct driver name
initDriverResources(devInfos) ==
    [d \in {devInfos[i].DriverName : i \in 1..Len(devInfos)} |-> [Pools |-> EmptyMap]]

(***************************************************************************)
(* getMachineUUIDs.  A kube view kv is what the informers answer:          *)
(* kv.listErr, kv.providerIDs, kv.nodeName[pid] = [name, err] and          *)
(* kv.machineUUID[pid] = [uuid, err].                                      *)
(***************************************************************************)
RECURSIVE ResolveProviders(_, _, _, _, _)
ResolveProviders(kv, useCapiBmh, i, uuids, log) ==
    IF i > Len(kv.providerIDs) THEN [uuids |-> uuids, err |-> NoErr, calls |-> log]
    ELSE LET providerID == kv.providerIDs[i]
             nn == kv.nodeName[providerID]
             log1 == Append(log, <<"FindNodeNameByProviderID", providerID, nn.name>>)
         IN  IF nn.err # NoErr THEN [uuids |-> EmptyMap, err |-> nn.err, calls |-> log1]
             ELSE IF nn.name = "" THEN ResolveProviders(kv, useCapiBmh, i + 1, uuids, log1)
             ELSE IF ~useCapiBmh
                  THEN ResolveProviders(kv, useCapiBmh, i + 1, MapSet(uuids, nn.name, providerID), log1)
                  ELSE LET found == kv.machineUUID[providerID]
                           log2 == Append(log1, <<"FindMachineUUIDByProviderID", providerID, found.uuid>>)
                       IN  IF found.err # NoErr THEN [uuids |-> EmptyMap, err |-> found.err, calls |-> log2]
                           ELSE IF found.uuid = "" THEN ResolveProviders(kv, useCapiBmh, i + 1, uuids, log2)
                           ELSE ResolveProviders(kv, useCapiBmh, i + 1, MapSet(uuids, nn.name, found.uuid), log2)

getMachineUUIDs(kv, useCapiBmh) ==
    IF kv.listErr # NoErr
    THEN [uuids |-> EmptyMap, err |-> kv.listErr, calls |-> <<<<"ListProviderIDs">>>>]
    ELSE ResolveProviders(kv, useCapiBmh, 1, EmptyMap, <<<<"ListProviderIDs">>>>)

(***************************************************************************)
(* Machine assembly (startCheckResourcePoolLoop, lines 238-269).           *)
(***************************************************************************)
SetMin(S) == CHOOSE x \in S : \A y \in S : x <= y

SetMax(S) == CHOOSE x \in S : \A y \in S : x >= y

\* getFabricID: the FabricID pointer of the first entry with that UUID
getFabricID(ml, muuid) ==
    LET hits == {i \in 1..Len(ml) : ml[i].MachineUUID = muuid}
    IN  IF hits = {} THEN Nil ELSE ml[SetMin(hits)].FabricID

\* a search that stops at the first group that contains the machine
FoundInNodeGroup_First(useCM, infos, muuid) ==
    LET hits == {i \in 1..Len(infos) : Contains(infos[i].MachineIDs, muuid)}
    IN  IF ~useCM \/ hits = {} THEN "" ELSE infos[SetMin(hits)].UUID

\* foundInNodeGroup[muuid]: every containing group overwrites the entry
FoundInNodeGroup(useCM, infos, muuid) ==
    LET hits == {i \in 1..Len(infos) : Contains(infos[i].MachineIDs, muuid)}
    IN  IF ~useCM \/ hits = {} THEN "" ELSE infos[SetMax(hits)].UUID

\* an assembly that keeps every machine
HasFabric_Any(m) == TRUE

HasFabric(m) == ~IsNil(m.fabricID)

\* the machines slice, for one order of ranging over the muuids map
CreateMachineList(order, uuids, ml, useCM, infos) ==
    SelectSeq([i \in 1..Len(order) |->
                  [nodeName |-> order[i],
                   machineUUID |-> uuids[order[i]],
                   fabricID |-> getFabricID(ml, uuids[order[i]]),
                   deviceList |-> EmptyMap,
                   nodeGroupUUID |-> FoundInNodeGroup(useCM, infos, uuids[order[i]])]],
              HasFabric)

\* every machine stands for its fabric: no memo of the fabrics already asked
FabricReps_All(ms) == [i \in 1..Len(ms) |-> i]

\* indices of the machines that are the first of their fabric
FabricReps(ms) ==
    SelectSeq([i \in 1..Len(ms) |-> i],
              LAMBDA i : \A j \in 1..(i - 1) : ms[j].fabricID # ms[i].fabricID)

\* every machine stands for its node group: no memo of the groups already asked
NodeGroupReps_All(ms) == [i \in 1..Len(ms) |-> i]

\* indices of the machines that are the first with their node group UUID
NodeGroupReps(ms) ==
    SelectSeq([i \in 1..Len(ms) |-> i],
              LAMBDA i : \A j \in 1..(i - 1) : ms[j].nodeGroupUUID # ms[i].nodeGroupUUID)

(***************************************************************************)
(* Per-fabric device discovery (lines 271-293) and the copy of the device  *)
(* list into every machine (lines 295-303, DeepCopy lines 667-675).        *)
(* A device object lives in the heap at an address; a deviceList maps a    *)
(* CDI model name to the address of its device.                            *)
(***************************************************************************)
ModelNames(devInfos) == {devInfos[k].CDIModelName : k \in 1..Len(devInfos)}

\* deviceList[CDIModelName] = ... in catalog order: the last entry of a name stays
LastInfo(devInfos, mn) ==
    SetMax({k \in 1..Len(devInfos) : devInfos[k].CDIModelName = mn})

\* the getAvailableNums calls of a pass, in order: one per fabric representative and catalog entry
AvailPlan(ms, devInfos) ==
    LET reps == FabricReps(ms)
        nd == Len(devInfos)
    IN  [j \in 1..(Len(reps) * nd) |->
            [machineUUID |-> ms[reps[((j - 1) \div nd) + 1]].machineUUID,
             modelName |-> devInfos[((j - 1) % nd) + 1].CDIModelName]]

FabricAddr(f, mn) == <<"fabricFound", f, mn>>

MachineAddr(i, mn) == <<"machine", i, mn>>

NewDevice(info, availableNum, bindingTimeout) ==
    [k8sDeviceName |-> info.K8sDeviceName,
     driverName |-> info.DriverName,
     draAttributes |-> info.DRAAttributes,
     availableDeviceCount |-> availableNum,
     minDeviceCount |-> Nil,
     maxDeviceCount |-> Nil,
     bindingTimeout |-> bindingTimeout]

\* fabricFound and the devices it points to, given the answers ans[j] to AvailPlan[j]
BuildFabricFound(ms, devInfos, ans, bindingTimeout) ==
    LET reps == FabricReps(ms)
        nd == Len(devInfos)
        fabrics == {Deref(ms[reps[r]].fabricID) : r \in 1..Len(reps)}
        repOf(f) == CHOOSE r \in 1..Len(reps) : Deref(ms[reps[r]].fabricID) = f
        names == ModelNames(devInfos)
    IN  [fabricFound |-> [f \in fabrics |-> [mn \in names |-> FabricAddr(f, mn)]],
         heap |-> [a \in {FabricAddr(f, mn) : f \in fabrics, mn \in names} |->
                     LET k == LastInfo(devInfos, a[3])
                     IN  NewDevice(devInfos[k], ans[((repOf(a[2]) - 1) * nd) + k], bindingTimeout)]]

\* a copy that hands out the device objects of the original list
DeepCopy_Shared(in, h, owner) == [out |-> in, heap |-> h]

\* deviceList.DeepCopy: a new device object per model, holding a copy of the device
DeepCopy(in, h, owner) ==
    LET fresh == {MachineAddr(owner, mn) : mn \in DOMAIN in}
    IN  [out |-> [mn \in DOMAIN in |-> MachineAddr(owner, mn)],
         heap |-> [a \in DOMAIN h \cup fresh |-> IF a \in fresh THEN h[in[a[3]]] ELSE h[a]]]

RECURSIVE CopyDeviceLists(_, _, _, _)
CopyDeviceLists(ms, ff, h, i) ==
    IF i > Len(ms) THEN [machines |-> ms, heap |-> h]
    ELSE LET c == DeepCopy(ff[Deref(ms[i].fabricID)], h, i)
         IN  CopyDeviceLists([ms EXCEPT ![i].deviceList = c.out], ff, c.heap, i + 1)

(***************************************************************************)
(* Per-node-group quota discovery and overlay (lines 305-344,              *)
(* getMinMaxNums lines 464-487).                                           *)
(***************************************************************************)
\* the CDI model names in catalog order, each once
ModelSeq(devInfos) ==
    LET firsts == SelectSeq([k \in 1..Len(devInfos) |-> k],
                            LAMBDA k : \A j \in 1..(k - 1) : devInfos[j].CDIModelName # devInfos[k].CDIModelName)
    IN  [i \in 1..Len(firsts) |-> devInfos[firsts[i]].CDIModelName]

\* the models of a device list, as a sequence
DeviceListModels(dl, devInfos) == SelectSeq(ModelSeq(devInfos), LAMBDA mn : mn \in DOMAIN dl)

\* the getMinMaxNums calls of a pass, in order: one per node-group representative and model
RECURSIVE MinMaxPlan(_, _, _)
MinMaxPlan(ms, devInfos, r) ==
    LET reps == NodeGroupReps(ms)
    IN  IF r > Len(reps) THEN <<>>
        ELSE LET m == ms[reps[r]]
                 models == DeviceListModels(m.deviceList, devInfos)
             IN  [j \in 1..Len(models) |->
                     [machineUUID |-> m.machineUUID, modelName |-> models[j],
                      nodeGroupUUID |-> m.nodeGroupUUID]]
                 \o MinMaxPlan(ms, devInfos, r + 1)

ConditionMatches(resspec, modelName) ==
    \E c \in 1..Len(resspec.Conditions) :
        /\ resspec.Conditions[c].Column = "model"
        /\ resspec.Conditions[c].Operator = "eq"
        /\ resspec.Conditions[c].Value = modelName

\* getMinMaxNums on the ResSpecs of a node-details answer: the last matching, set bound stays
getMinMaxNums(resSpecs, modelName) ==
    LET minHits == {i \in 1..Len(resSpecs) :
                       ConditionMatches(resSpecs[i], modelName) /\ ~IsNil(resSpecs[i].MinResSpecCount)}
        maxHits == {i \in 1..Len(resSpecs) :
                       ConditionMatches(resSpecs[i], modelName) /\ ~IsNil(resSpecs[i].MaxResSpecCount)}
    IN  [min |-> IF minHits = {} THEN Nil ELSE resSpecs[SetMax(minHits)].MinResSpecCount,
         max |-> IF maxHits = {} THEN Nil ELSE resSpecs[SetMax(maxHits)].MaxResSpecCount]

\* nodeGroupFound, given the node-details answers ans[j] to MinMaxPlan[j]
BuildNodeGroupFound(plan, ans) ==
    [ng \in {plan[j].nodeGroupUUID : j \in 1..Len(plan)} |->
        [mn \in {plan[j].modelName : j \in {x \in 1..Len(plan) : plan[x].nodeGroupUUID = ng}} |->
            LET j == CHOOSE x \in 1..Len(plan) : plan[x].nodeGroupUUID = ng /\ plan[x].modelName = mn
            IN  getMinMaxNums(ans[j], mn)]]

\* the assignments of lines 334-341 to one device
ApplyLimit(device, limit) ==
    [device EXCEPT !.minDeviceCount = IF ~IsNil(limit.min) THEN limit.min ELSE @,
                   !.maxDeviceCount = IF ~IsNil(limit.max) THEN limit.max ELSE @]

\* the (node group, machine, model) triples of the overlay loops, in order
OverlayOps(ms, ngf, devInfos) ==
    LET reps == NodeGroupReps(ms)
        models == ModelSeq(devInfos)
        n == Len(ms)
        nm == Len(models)
        all == [t \in 1..(Len(reps) * n * nm) |->
                   [ng |-> ms[reps[((t - 1) \div (n * nm)) + 1]].nodeGroupUUID,
                    i |-> (((t - 1) \div nm) % n) + 1,
                    mn |-> models[((t - 1) % nm) + 1]]]
    IN  SelectSeq(all, LAMBDA o : /\ ms[o.i].nodeGroupUUID = o.ng
                                  /\ o.ng \in DOMAIN ngf
                                  /\ o.mn \in DOMAIN ngf[o.ng])

RECURSIVE CopyMinMax(_, _, _, _, _)
CopyMinMax(ms, ngf, h, ops, t) ==
    IF t > Len(ops) THEN h
    ELSE LET a == ms[ops[t].i].deviceList[ops[t].mn]
         IN  CopyMinMax(ms, ngf, [h EXCEPT ![a] = ApplyLimit(@, ngf[ops[t].ng][ops[t].mn])], ops, t + 1)

(***************************************************************************)
(* manageCDIResourceSlices (lines 489-515).                                *)
(***************************************************************************)
\* the (machine, model) pairs updatePool is tried for, in order
RECURSIVE PoolPlan(_, _, _, _)
PoolPlan(ms, h, devInfos, r) ==
    LET reps == FabricReps(ms)
    IN  IF r > Len(reps) THEN <<>>
        ELSE LET models == DeviceListModels(ms[reps[r]].deviceList, devInfos)
             IN  [j \in 1..Len(models) |-> [i |-> reps[r], mn |-> models[j]]]
                 \o PoolPlan(ms, h, devInfos, r + 1)

RECURSIVE UpdatePools(_, _, _, _, _, _, _)
UpdatePools(ndr, needUpdate, prefix, ms, h, plan, t) ==
    IF t > Len(plan) THEN [ndr |-> ndr, needUpdate |-> needUpdate]
    ELSE LET m == ms[plan[t].i]
             device == h[m.deviceList[plan[t].mn]]
             fabricID == Deref(m.fabricID)
         IN  IF device.driverName \in DOMAIN ndr
             THEN LET u == updatePool(ndr, prefix, device.driverName, PoolName(device, fabricID),
                                      device, fabricID)
                  IN  UpdatePools(u.ndr,
                                  IF u.updated THEN needUpdate \cup {device.driverName} ELSE needUpdate,
                                  prefix, ms, h, plan, t + 1)
             ELSE UpdatePools(ndr, needUpdate, prefix, ms, h, plan, t + 1)

\* a manageCDIResourceSlices that updates the controller of every driver
manageCDIResourceSlices_All(ndr, prefix, ms, h, devInfos) ==
    LET u == UpdatePools(ndr, {}, prefix, ms, h, PoolPlan(ms, h, devInfos, 1), 1)
    IN  [ndr |-> u.ndr, published |-> [d \in DOMAIN u.ndr |-> <<u.ndr[d]>>]]

\* a manageCDIResourceSlices that keeps only the pools of the fabrics it has just seen
manageCDIResourceSlices_Prune(ndr, prefix, ms, h, devInfos) ==
    LET plan == PoolPlan(ms, h, devInfos, 1)
        u == UpdatePools(ndr, {}, prefix, ms, h, plan, 1)
        seen == {PoolName(h[ms[plan[t].i].deviceList[plan[t].mn]], Deref(ms[plan[t].i].fabricID)) :
                    t \in 1..Len(plan)}
        kept(pools) == IF DOMAIN pools \cap seen = {} THEN EmptyMap
                       ELSE [pn \in DOMAIN pools \cap seen |-> pools[pn]]
        pruned == [d \in DOMAIN u.ndr |-> [u.ndr[d] EXCEPT !.Pools = kept(@)]]
    IN  [ndr |-> pruned,
         published |-> [d \in DOMAIN pruned |-> IF d \in u.needUpdate THEN <<pruned[d]>> ELSE <<>>]]

\* the new namedDriverResources and, per driver, the payloads of its Update calls
manageCDIResourceSlices(ndr, prefix, ms, h, devInfos) ==
    LET u == UpdatePools(ndr, {}, prefix, ms, h, PoolPlan(ms, h, devInfos, 1), 1)
    IN  [ndr |-> u.ndr,
         published |-> [d \in DOMAIN u.ndr |-> IF d \in u.needUpdate THEN <<u.ndr[d]>> ELSE <<>>]]

(***************************************************************************)
(* manageCDINodeLabel (lines 587-632): the labels of one node.             *)
(***************************************************************************)
\* a size label that is written when a bound exists and otherwise left as it is
SizeLabel_Keep(labels, key, count) ==
    IF ~IsNil(count) THEN MapSet(labels, key, Itoa(Deref(count))) ELSE labels

SizeLabel(labels, key, count) ==
    IF ~IsNil(count)
    THEN IF MapGetStr(labels, key) # Itoa(Deref(count)) THEN MapSet(labels, key, Itoa(Deref(count))) ELSE labels
    ELSE MapDelete(labels, key)

RECURSIVE SizeLabels(_, _, _, _, _, _)
SizeLabels(labels, prefix, m, h, models, j) ==
    IF j > Len(models) THEN labels
    ELSE LET device == h[m.deviceList[models[j]]]
             l1 == SizeLabel(labels, prefix \o "/" \o device.k8sDeviceName \o "-size-max", device.maxDeviceCount)
             l2 == SizeLabel(l1, prefix \o "/" \o device.k8sDeviceName \o "-size-min", device.minDeviceCount)
         IN  SizeLabels(l2, prefix, m, h, models, j + 1)

\* a label sync that writes the size labels whether or not the cluster manager is in use
NodeLabelsFor_Sizes(labels, prefix, useCM, m, h, devInfos) ==
    LET l0 == MapSet(labels, prefix \o "/" \o "fabric", Itoa(Deref(m.fabricID)))
    IN  SizeLabels(l0, prefix, m, h, DeviceListModels(m.deviceList, devInfos), 1)

NodeLabelsFor(labels, prefix, useCM, m, h, devInfos) ==
    LET l0 == MapSet(labels, prefix \o "/" \o "fabric", Itoa(Deref(m.fabricID)))
    IN  IF useCM THEN SizeLabels(l0, prefix, m, h, DeviceListModels(m.deviceList, devInfos), 1) ELSE l0

(***************************************************************************)
(* The pass, step by step.  An environment env bounds what the             *)
(* collaborators answer: env.kube (kube views), env.fm (machine-list       *)
(* answers), env.nodeGroups and env.ngInfo (cluster-manager answers),      *)
(* env.avail[model] (reserved-resource counts), env.details (node-details  *)
(* answers), env.availFail / env.detailsFail (whether those calls can      *)
(* fail) and env.node (outcomes of reading and updating a node).           *)
(***************************************************************************)
\* a failure that is recorded while the pass goes on to publish
Fail_Continue(e) ==
    /\ err' = e
    /\ pc' = "manageCDIResourceSlices"

\* return err
Fail(e) ==
    /\ err' = e
    /\ pc' = "return"

\* the entry that follows a failed collaborator call in the call log
Failed == <<"ERROR">>

Mark(failed) == IF failed THEN <<Failed>> ELSE <<>>

GenerationsBelowCap ==
    \A d \in DOMAIN namedDriverResources :
        \A pn \in DOMAIN namedDriverResources[d].Pools :
            namedDriverResources[d].Pools[pn].Generation < MaxGen

\* a loop that calls the closure without looking at ctx.Done()
LoopStart_Deaf ==
    /\ pc = "idle"
    /\ GenerationsBelowCap
    /\ pc' = "getMachineUUIDs"
    /\ muuids' = EmptyMap
    /\ mList' = <<>>
    /\ nodeGroups' = <<>>
    /\ ngInfos' = <<>>
    /\ machines' = <<>>
    /\ fabricFound' = EmptyMap
    /\ nodeGroupFound' = EmptyMap
    /\ idx' = 0
    /\ heap' = EmptyMap
    /\ err' = NoErr
    /\ calls' = <<>>
    /\ published' = [d \in DOMAIN namedDriverResources |-> <<>>]
    /\ nodeUpdates' = <<>>
    /\ atStart' = [ndr |-> namedDriverResources, nodeLabels |-> nodeLabels]
    /\ UNCHANGED <<cfgVars, namedDriverResources, nodeLabels, prev, tokenVars>>

\* wait.Until calls the closure: a new pass begins (lines 171-173)
LoopStart ==
    /\ pc = "idle"
    /\ ~proc.ctxDone
    /\ GenerationsBelowCap
    /\ pc' = "getMachineUUIDs"
    /\ muuids' = EmptyMap
    /\ mList' = <<>>
    /\ nodeGroups' = <<>>
    /\ ngInfos' = <<>>
    /\ machines' = <<>>
    /\ fabricFound' = EmptyMap
    /\ nodeGroupFound' = EmptyMap
    /\ idx' = 0
    /\ heap' = EmptyMap
    /\ err' = NoErr
    /\ calls' = <<>>
    /\ published' = [d \in DOMAIN namedDriverResources |-> <<>>]
    /\ nodeUpdates' = <<>>
    /\ atStart' = [ndr |-> namedDriverResources, nodeLabels |-> nodeLabels]
    /\ UNCHANGED <<cfgVars, namedDriverResources, nodeLabels, prev, tokenVars>>

\* lines 206-214
GetMachineUUIDs(env) ==
    /\ pc = "getMachineUUIDs"
    /\ \E kv \in env.kube :
          LET r == getMachineUUIDs(kv, cdiOptions.useCapiBmh)
          IN  /\ calls' = calls \o r.calls \o Mark(r.err # NoErr)
              /\ IF r.err # NoErr
                 THEN Fail(r.err) /\ UNCHANGED muuids
                 ELSE IF Cardinality(DOMAIN r.uuids) = 0
                      THEN Fail("not any machine uuid is found") /\ UNCHANGED muuids
                      ELSE muuids' = r.uuids /\ pc' = "getMachineList" /\ UNCHANGED err
    /\ UNCHANGED <<cfgVars, namedDriverResources, nodeLabels, mList, nodeGroups, ngInfos, machines,
                   fabricFound, nodeGroupFound, idx, heap, published, nodeUpdates, atStart, prev, tokenVars>>

\* lines 215-219, getMachineList lines 403-417
GetMachineList(env) ==
    /\ pc = "getMachineList"
    /\ \E r \in env.fm :
          /\ calls' = Append(calls, <<"ListMachines">>) \o Mark(r.err # NoErr)
          /\ IF r.err # NoErr
             THEN Fail("FM machine list API failed") /\ UNCHANGED mList
             ELSE /\ mList' = r.Machines
                  /\ pc' = IF cdiOptions.useCM THEN "getNodeGroups" ELSE "createMachines"
                  /\ UNCHANGED err
    /\ UNCHANGED <<cfgVars, namedDriverResources, nodeLabels, muuids, nodeGroups, ngInfos, machines,
                   fabricFound, nodeGroupFound, idx, heap, published, nodeUpdates, atStart, prev, tokenVars>>

\* lines 222-227, getNodeGroups lines 432-446
GetNodeGroups(env) ==
    /\ pc = "getNodeGroups"
    /\ \E r \in env.nodeGroups :
          /\ calls' = Append(calls, <<"ListNodeGroups">>) \o Mark(r.err # NoErr)
          /\ IF r.err # NoErr
             THEN Fail("CM node groups API failed") /\ UNCHANGED nodeGroups
             ELSE nodeGroups' = r.NodeGroups /\ pc' = "getNodeGroupInfo" /\ UNCHANGED err
    /\ UNCHANGED <<cfgVars, namedDriverResources, nodeLabels, muuids, mList, ngInfos, machines,
                   fabricFound, nodeGroupFound, idx, heap, published, nodeUpdates, atStart, prev, tokenVars>>

\* the index of the first failing answer among gi[nodeGroups[k].UUID], or 0
FirstFailure(groups, gi) ==
    LET bad == {k \in 1..Len(groups) : gi[groups[k].UUID].err # NoErr}
    IN  IF bad = {} THEN 0 ELSE SetMin(bad)

\* lines 228-235, getNodeGroupInfo lines 448-462: one call per node group
GetNodeGroupInfo(env) ==
    /\ pc = "getNodeGroupInfo"
    /\ \E gi \in env.ngInfo :
          LET bad == FirstFailure(nodeGroups, gi)
              made == IF bad = 0 THEN Len(nodeGroups) ELSE bad
          IN  /\ calls' = calls \o [k \in 1..made |-> <<"NodeGroupMembers", nodeGroups[k].UUID>>] \o Mark(bad # 0)
              /\ IF bad # 0
                 THEN Fail("CM node group info API failed") /\ UNCHANGED ngInfos
                 ELSE /\ ngInfos' = [k \in 1..Len(nodeGroups) |-> gi[nodeGroups[k].UUID].info]
                      /\ pc' = "createMachines"
                      /\ UNCHANGED err
    /\ UNCHANGED <<cfgVars, namedDriverResources, nodeLabels, muuids, mList, nodeGroups, machines,
                   fabricFound, nodeGroupFound, idx, heap, published, nodeUpdates, atStart, prev, tokenVars>>

\* an assembly that goes on with whatever machines it has, even none
CreateMachines_Proceed ==
    /\ pc = "createMachines"
    /\ \E order \in Perms(DOMAIN muuids) :
          machines' = CreateMachineList(order, muuids, mList, cdiOptions.useCM, ngInfos)
    /\ pc' = "getAvailableNums"
    /\ UNCHANGED <<cfgVars, namedDriverResources, nodeLabels, muuids, mList, nodeGroups, ngInfos,
                   fabricFound, nodeGroupFound, idx, heap, err, logVars, atStart, prev, tokenVars>>

\* lines 238-269: range over the muuids map in any order
CreateMachines ==
    /\ pc = "createMachines"
    /\ \E order \in Perms(DOMAIN muuids) :
          LET ms == CreateMachineList(order, muuids, mList, cdiOptions.useCM, ngInfos)
          IN  IF Len(ms) = 0
              THEN Fail("not any machine is found to process") /\ UNCHANGED machines
              ELSE machines' = ms /\ pc' = "getAvailableNums" /\ UNCHANGED err
    /\ UNCHANGED <<cfgVars, namedDriverResources, nodeLabels, muuids, mList, nodeGroups, ngInfos,
                   fabricFound, nodeGroupFound, idx, heap, logVars, atStart, prev, tokenVars>>

\* what the planned getAvailableNums calls can answer: all succeed with ans, or call failAt fails
AvailOutcomes(plan, env) ==
    {[failAt |-> 0, ans |-> a] :
        a \in {f \in [1..Len(plan) -> UNION {env.avail[mn] : mn \in DOMAIN env.avail}] :
                  \A j \in 1..Len(plan) : f[j] \in env.avail[plan[j].modelName]}}
    \cup (IF env.availFail THEN {[failAt |-> j, ans |-> <<>>] : j \in 1..Len(plan)} ELSE {})

\* lines 271-293, getAvailableNums lines 419-430
GetAvailableNums(env) ==
    /\ pc = "getAvailableNums"
    /\ LET plan == AvailPlan(machines, deviceInfos)
       IN  \E o \in AvailOutcomes(plan, env) :
             LET made == IF o.failAt = 0 THEN Len(plan) ELSE o.failAt
             IN  /\ calls' = calls \o [j \in 1..made |->
                                         IF o.failAt = 0
                                         THEN <<"AvailableCount", plan[j].machineUUID, plan[j].modelName,
                                                o.ans[j]>>
                                         ELSE <<"AvailableCount", plan[j].machineUUID, plan[j].modelName>>]
                                  \o Mark(o.failAt # 0)
                 /\ IF o.failAt # 0
                    THEN Fail("FM available reserved resources API failed") /\ UNCHANGED <<fabricFound, heap>>
                    ELSE LET b == BuildFabricFound(machines, deviceInfos, o.ans, cdiOptions.bindingTimeout)
                         IN  /\ fabricFound' = b.fabricFound
                             /\ heap' = b.heap
                             /\ pc' = "copyDeviceList"
                             /\ UNCHANGED err
    /\ UNCHANGED <<cfgVars, namedDriverResources, nodeLabels, muuids, mList, nodeGroups, ngInfos, machines,
                   nodeGroupFound, idx, published, nodeUpdates, atStart, prev, tokenVars>>

\* lines 295-303
CopyDeviceList ==
    /\ pc = "copyDeviceList"
    /\ LET c == CopyDeviceLists(machines, fabricFound, heap, 1)
       IN  /\ machines' = c.machines
           /\ heap' = c.heap
    /\ pc' = IF cdiOptions.useCM THEN "getMinMaxNums" ELSE "manageCDIResourceSlices"
    /\ UNCHANGED <<cfgVars, namedDriverResources, nodeLabels, muuids, mList, nodeGroups, ngInfos,
                   fabricFound, nodeGroupFound, idx, err, logVars, atStart, prev, tokenVars>>

DetailsOutcomes(plan, env) ==
    {[failAt |-> 0, ans |-> a] : a \in [1..Len(plan) -> env.details]}
    \cup (IF env.detailsFail THEN {[failAt |-> j, ans |-> <<>>] : j \in 1..Len(plan)} ELSE {})

\* lines 312-326, getMinMaxNums lines 464-487
GetMinMaxNums(env) ==
    /\ pc = "getMinMaxNums"
    /\ LET plan == MinMaxPlan(machines, deviceInfos, 1)
       IN  \E o \in DetailsOutcomes(plan, env) :
             LET made == IF o.failAt = 0 THEN Len(plan) ELSE o.failAt
             IN  /\ calls' = calls \o [j \in 1..made |->
                                         IF o.failAt = 0
                                         THEN <<"NodeDetails", plan[j].machineUUID, plan[j].modelName, o.ans[j]>>
                                         ELSE <<"NodeDetails", plan[j].machineUUID, plan[j].modelName>>]
                                  \o Mark(o.failAt # 0)
                 /\ IF o.failAt # 0
                    THEN Fail("CM node details API failed") /\ UNCHANGED nodeGroupFound
                    ELSE /\ nodeGroupFound' = BuildNodeGroupFound(plan, o.ans)
                         /\ pc' = "copyMinMax"
                         /\ UNCHANGED err
    /\ UNCHANGED <<cfgVars, namedDriverResources, nodeLabels, muuids, mList, nodeGroups, ngInfos, machines,
                   fabricFound, idx, heap, published, nodeUpdates, atStart, prev, tokenVars>>

\* lines 328-343
CopyMinMaxIntoMachines ==
    /\ pc = "copyMinMax"
    /\ heap' = CopyMinMax(machines, nodeGroupFound, heap,
                          OverlayOps(machines, nodeGroupFound, deviceInfos), 1)
    /\ pc' = "manageCDIResourceSlices"
    /\ UNCHANGED <<cfgVars, namedDriverResources, nodeLabels, muuids, mList, nodeGroups, ngInfos, machines,
                   fabricFound, nodeGroupFound, idx, err, logVars, atStart, prev, tokenVars>>

\* line 354
ManageCDIResourceSlices ==
    /\ pc = "manageCDIResourceSlices"
    /\ LET r == manageCDIResourceSlices(namedDriverResources, labelPrefix, machines, heap, deviceInfos)
       IN  /\ namedDriverResources' = r.ndr
           /\ published' = r.published
    /\ pc' = "manageCDINodeLabel"
    /\ idx' = 1
    /\ UNCHANGED <<cfgVars, nodeLabels, muuids, mList, nodeGroups, ngInfos, machines, fabricFound,
                   nodeGroupFound, heap, err, calls, nodeUpdates, atStart, prev, tokenVars>>

\* a label sync that takes a node that is not there for an error
ManageCDINodeLabel_NilFails(env) ==
    /\ pc = "manageCDINodeLabel"
    /\ idx <= Len(machines)
    /\ \E o \in env.node :
          /\ calls' = Append(calls, IF o = "getErr" THEN <<"GetNode", machines[idx].nodeName>>
                                      ELSE <<"GetNode", machines[idx].nodeName,
                                             IF o = "noNode" THEN "nil" ELSE "node">>)
                        \o Mark(o = "getErr")
          /\ LET m == machines[idx]
                 labels == NodeLabelsFor(nodeLabels[m.nodeName], labelPrefix, cdiOptions.useCM, m, heap, deviceInfos)
                 next == IF idx = Len(machines) THEN "return" ELSE "manageCDINodeLabel"
             IN CASE o = "getErr" ->
                     Fail("failed to get node") /\ UNCHANGED <<nodeLabels, nodeUpdates, idx>>
                [] o = "noNode" ->
                     Fail("node not found") /\ UNCHANGED <<nodeLabels, nodeUpdates, idx>>
                [] o = "updateErr" ->
                     /\ nodeUpdates' = Append(nodeUpdates, [nodeName |-> m.nodeName, labels |-> labels, ok |-> FALSE])
                     /\ Fail("failed to update node label")
                     /\ UNCHANGED <<nodeLabels, idx>>
                [] OTHER ->
                     /\ nodeUpdates' = Append(nodeUpdates, [nodeName |-> m.nodeName, labels |-> labels, ok |-> TRUE])
                     /\ nodeLabels' = [nodeLabels EXCEPT ![m.nodeName] = labels]
                     /\ idx' = idx + 1
                     /\ pc' = next
                     /\ UNCHANGED err
    /\ UNCHANGED <<cfgVars, namedDriverResources, muuids, mList, nodeGroups, ngInfos, machines, fabricFound,
                   nodeGroupFound, heap, published, atStart, prev, tokenVars>>

\* a label sync that goes on to the next machine after a failed node update
ManageCDINodeLabel_GoOn(env) ==
    /\ pc = "manageCDINodeLabel"
    /\ idx <= Len(machines)
    /\ \E o \in env.node :
          /\ calls' = Append(calls, IF o = "getErr" THEN <<"GetNode", machines[idx].nodeName>>
                                      ELSE <<"GetNode", machines[idx].nodeName,
                                             IF o = "noNode" THEN "nil" ELSE "node">>)
                        \o Mark(o = "getErr")
          /\ LET m == machines[idx]
                 labels == NodeLabelsFor(nodeLabels[m.nodeName], labelPrefix, cdiOptions.useCM, m, heap, deviceInfos)
                 next == IF idx = Len(machines) THEN "return" ELSE "manageCDINodeLabel"
             IN CASE o = "getErr" ->
                     Fail("failed to get node") /\ UNCHANGED <<nodeLabels, nodeUpdates, idx>>
                [] o = "noNode" ->
                     /\ idx' = idx + 1
                     /\ pc' = next
                     /\ UNCHANGED <<nodeLabels, nodeUpdates, err>>
                [] o = "updateErr" ->
                     /\ nodeUpdates' = Append(nodeUpdates, [nodeName |-> m.nodeName, labels |-> labels, ok |-> FALSE])
                     /\ err' = "failed to update node label"
                     /\ idx' = idx + 1
                     /\ pc' = next
                     /\ UNCHANGED nodeLabels
                [] OTHER ->
                     /\ nodeUpdates' = Append(nodeUpdates, [nodeName |-> m.nodeName, labels |-> labels, ok |-> TRUE])
                     /\ nodeLabels' = [nodeLabels EXCEPT ![m.nodeName] = labels]
                     /\ idx' = idx + 1
                     /\ pc' = next
                     /\ UNCHANGED err
    /\ UNCHANGED <<cfgVars, namedDriverResources, muuids, mList, nodeGroups, ngInfos, machines, fabricFound,
                   nodeGroupFound, heap, published, atStart, prev, tokenVars>>

\* lines 356-361: one iteration of the loop of manageCDINodeLabel
ManageCDINodeLabel(env) ==
    /\ pc = "manageCDINodeLabel"
    /\ idx <= Len(machines)
    /\ \E o \in env.node :
          /\ calls' = Append(calls, IF o = "getErr" THEN <<"GetNode", machines[idx].nodeName>>
                                      ELSE <<"GetNode", machines[idx].nodeName,
                                             IF o = "noNode" THEN "nil" ELSE "node">>)
                        \o Mark(o = "getErr")
          /\ LET m == machines[idx]
                 labels == NodeLabelsFor(nodeLabels[m.nodeName], labelPrefix, cdiOptions.useCM, m, heap, deviceInfos)
                 next == IF idx = Len(machines) THEN "return" ELSE "manageCDINodeLabel"
             IN CASE o = "getErr" ->
                     Fail("failed to get node") /\ UNCHANGED <<nodeLabels, nodeUpdates, idx>>
                [] o = "noNode" ->
                     /\ idx' = idx + 1
                     /\ pc' = next
                     /\ UNCHANGED <<nodeLabels, nodeUpdates, err>>
                [] o = "updateErr" ->
                     /\ nodeUpdates' = Append(nodeUpdates, [nodeName |-> m.nodeName, labels |-> labels, ok |-> FALSE])
                     /\ Fail("failed to update node label")
                     /\ UNCHANGED <<nodeLabels, idx>>
                [] OTHER ->
                     /\ nodeUpdates' = Append(nodeUpdates, [nodeName |-> m.nodeName, labels |-> labels, ok |-> TRUE])
                     /\ nodeLabels' = [nodeLabels EXCEPT ![m.nodeName] = labels]
                     /\ idx' = idx + 1
                     /\ pc' = next
                     /\ UNCHANGED err
    /\ UNCHANGED <<cfgVars, namedDriverResources, muuids, mList, nodeGroups, ngInfos, machines, fabricFound,
                   nodeGroupFound, heap, published, atStart, prev, tokenVars>>

\* what the collaborators answered in this pass: the node names and machine
\* UUIDs, the machine list, the node groups and their members, the available
\* counts per fabric, and the bounds per node-group key with the machine asked
PassData ==
    [muuids |-> muuids, mList |-> mList, nodeGroups |-> nodeGroups, ngInfos |-> ngInfos,
     avail |-> [f \in DOMAIN fabricFound |->
                   [mn \in DOMAIN fabricFound[f] |-> heap[fabricFound[f][mn]].availableDeviceCount]],
     bounds |-> nodeGroupFound,
     asked |-> LET reps == NodeGroupReps(machines)
               IN  [ng \in DOMAIN nodeGroupFound |->
                       machines[CHOOSE r \in {reps[k] : k \in 1..Len(reps)} :
                                    machines[r].nodeGroupUUID = ng].machineUUID]]

UpdatedNodes(ups) == {ups[i].nodeName : i \in {j \in 1..Len(ups) : ups[j].ok}}

\* a loop that ends when the closure has returned an error
LoopEnd_StopOnError(env) ==
    /\ pc = "return"
    /\ pc' = IF err = NoErr THEN "idle" ELSE "stopped"
    /\ prev' = IF env.history
                THEN [ran |-> TRUE, err |-> err, data |-> PassData,
                      updated |-> UpdatedNodes(nodeUpdates),
                      published |-> \E d \in DOMAIN published : published[d] # <<>>]
                ELSE [prev EXCEPT !.ran = TRUE, !.err = err]
    /\ UNCHANGED <<cfgVars, namedDriverResources, nodeLabels, localVars, err, logVars, atStart, tokenVars>>

\* the closure returns and wait.Until waits for the next tick (lines 174-179)
\* (env.history: whether the record of the pass keeps its data, for the claims
\* that compare two passes)
LoopEnd(env) ==
    /\ pc = "return"
    /\ pc' = "idle"
    /\ prev' = IF env.history
                THEN [ran |-> TRUE, err |-> err, data |-> PassData,
                      updated |-> UpdatedNodes(nodeUpdates),
                      published |-> \E d \in DOMAIN published : published[d] # <<>>]
                ELSE [prev EXCEPT !.ran = TRUE, !.err = err]
    /\ UNCHANGED <<cfgVars, namedDriverResources, nodeLabels, localVars, err, logVars, atStart, tokenVars>>

\* ctx.Done() is closed while wait.Until waits for the next tick: the loop ends (line 179)
Cancel ==
    /\ pc = "idle"
    /\ pc' = "stopped"
    /\ proc' = [proc EXCEPT !.ctxDone = TRUE]
    /\ UNCHANGED <<deviceInfos, labelPrefix, cdiOptions, im, namedDriverResources, nodeLabels, localVars,
                   err, logVars, atStart, prev, tokenVars>>

(***************************************************************************)
(* The process (src/main.go) and the start of the manager (lines 166-203). *)
(* proc.main is the position of main: "flags" (the command line is being   *)
(* read), "select" (the Action waits for a signal or for errChan),         *)
(* "return" (the Action has returned and its deferred cancel() has run) or *)
(* "exited".  pc = "unstarted" before the goroutine of line 118 exists,    *)
(* "startController" while StartCDIManager is before line 171, "stopped"   *)
(* when StartCDIManager has returned and "exited" when the process ended   *)
(* under it.                                                               *)
(***************************************************************************)
MaxBindingTimeout == 86400

\* the process once StartCDIManager has reached wait.Until
Launched(devInfos) ==
    [main |-> "select", args |-> [bindingTimeout |-> Nil], dra |-> TRUE, ctlFail |-> FALSE,
     ctxDone |-> FALSE, signalled |-> FALSE, errChan |-> <<>>, result |-> NoErr, exit |-> <<>>,
     controllers |-> DOMAIN initDriverResources(devInfos), killedAt |-> ""]

\* the process when main begins, with its command line and what the cluster answers at start
Starting(bindingTimeout, dra, ctlFail) ==
    [main |-> "flags", args |-> [bindingTimeout |-> bindingTimeout], dra |-> dra, ctlFail |-> ctlFail,
     ctxDone |-> FALSE, signalled |-> FALSE, errChan |-> <<>>, result |-> NoErr, exit |-> <<>>,
     controllers |-> {}, killedAt |-> ""]

\* a flag Action that accepts every value
InRange_Any(timeout) == TRUE

\* 0 <= timeout && timeout <= 86400 (main.go line 76)
InRange(timeout) == 0 <= timeout /\ timeout <= MaxBindingTimeout

\* app.Run reads the flags (main.go lines 70-84); on an error the Action is
\* not run and main exits with 1 (lines 21-24); else the Action starts the
\* goroutine of StartCDIManager and waits (lines 109-122)
ParseFlags ==
    /\ proc.main = "flags"
    /\ LET timeout == proc.args.bindingTimeout
       IN  IF ~IsNil(timeout) /\ ~InRange(Deref(timeout))
           THEN /\ proc' = [proc EXCEPT !.main = "exited", !.exit = Ptr(1),
                                        !.result = "binding timeout must be set from 0 to 86400"]
                /\ UNCHANGED <<cdiOptions, pc>>
           ELSE /\ cdiOptions' = [cdiOptions EXCEPT !.bindingTimeout = timeout]
                /\ proc' = [proc EXCEPT !.main = "select"]
                /\ pc' = "startController"
    /\ UNCHANGED <<deviceInfos, labelPrefix, im, namedDriverResources, nodeLabels, localVars, err, logVars,
                   atStart, prev, tokenVars>>

\* a start that does not look at the feature gate
DRAEnabled_Any(p) == TRUE

\* kube_utils.IsDRAEnabled(m.discoveryClient), as the cluster answers it
DRAEnabled(p) == p.dra

\* startResourceSliceController (lines 183-203) and its caller (lines 166-169)
StartResourceSliceController ==
    /\ pc = "startController"
    /\ IF ~DRAEnabled(proc)
       THEN /\ pc' = "stopped"
            /\ proc' = [proc EXCEPT !.errChan = <<"not enabled feature gate of Dynamic Resource Allocation">>]
       ELSE IF proc.ctlFail
            THEN /\ pc' = "stopped"
                 /\ proc' = [proc EXCEPT !.errChan = <<"error starting resource slice controller">>]
            ELSE /\ pc' = "idle"
                 /\ proc' = [proc EXCEPT !.controllers = DOMAIN namedDriverResources]
    /\ UNCHANGED <<deviceInfos, labelPrefix, cdiOptions, im, namedDriverResources, nodeLabels, localVars,
                   err, logVars, atStart, prev, tokenVars>>

\* case s := <-sigs: return nil, and the deferred cancel() (main.go lines 113-115, 123-125)
Signal ==
    /\ proc.main = "select"
    /\ proc' = [proc EXCEPT !.main = "return", !.signalled = TRUE, !.result = NoErr, !.ctxDone = TRUE]
    /\ UNCHANGED <<deviceInfos, labelPrefix, cdiOptions, im, namedDriverResources, nodeLabels, pc, localVars,
                   err, logVars, atStart, prev, tokenVars>>

\* case err := <-errChan: return err, and the deferred cancel() (main.go lines 113-115, 126-128)
RecvErr ==
    /\ proc.main = "select"
    /\ proc.errChan # <<>>
    /\ proc' = [proc EXCEPT !.main = "return", !.result = proc.errChan[1], !.errChan = <<>>,
                            !.ctxDone = TRUE]
    /\ UNCHANGED <<deviceInfos, labelPrefix, cdiOptions, im, namedDriverResources, nodeLabels, pc, localVars,
                   err, logVars, atStart, prev, tokenVars>>

\* main (main.go lines 20-25): os.Exit(1) on an error, else the return of main
ExitCode(result) == IF result # NoErr THEN 1 ELSE 0

\* main ends and the process with it: the goroutine of the manager ends where it is
Exit ==
    /\ proc.main = "return"
    /\ proc' = [proc EXCEPT !.main = "exited", !.exit = Ptr(ExitCode(proc.result)), !.killedAt = pc]
    /\ pc' = "exited"
    /\ UNCHANGED <<deviceInfos, labelPrefix, cdiOptions, im, namedDriverResources, nodeLabels, localVars,
                   err, logVars, atStart, prev, tokenVars>>

\* wait.Until finds ctx.Done() closed: StartCDIManager returns nil (lines 179-180)
\* and the goroutine sends it to errChan (main.go line 119)
Stop ==
    /\ pc = "idle"
    /\ proc.ctxDone
    /\ pc' = "stopped"
    /\ proc' = [proc EXCEPT !.errChan = <<NoErr>>]
    /\ UNCHANGED <<deviceInfos, labelPrefix, cdiOptions, im, namedDriverResources, nodeLabels, localVars,
                   err, logVars, atStart, prev, tokenVars>>

(***************************************************************************)
(* cachedIMTokenSource.Token (src/pkg/config/test_helper.go, lines         *)
(* 354-377), one action per statement.  A token is a record [AccessToken,  *)
(* Expiry]: the serial number the identity manager gave it and its expiry  *)
(* instant in seconds.  ts.token is read and written outside the mutex at  *)
(* lines 367, 372 and 375; a racing read sees the old or the new pointer,  *)
(* which the interleaving of the steps produces.                           *)
(***************************************************************************)
IdleCaller == [pc |-> "idle", now |-> 0, token |-> Nil, err |-> NoErr, ret |-> Nil]

\* token != nil && token.Expiry.Add(-ts.marginTime).After(now)
TokenValid_NoMargin(token, marginTime, t) == ~IsNil(token) /\ Deref(token).Expiry > t

TokenValid(token, marginTime, t) == ~IsNil(token) /\ Deref(token).Expiry - marginTime > t

\* the lifetimes of the tokens the identity manager issues: within and beyond the margin
Lifetimes == {MarginTime - TickSeconds, MarginTime + TickSeconds}

Goto(c, pos) == callers' = [callers EXCEPT ![c].pc = pos]

\* a goroutine calls Token(): now := time.Now() (line 356)
Call(c) ==
    /\ callers[c].pc = "idle"
    /\ callers' = [callers EXCEPT ![c] = [IdleCaller EXCEPT !.pc = "lock", !.now = now]]
    /\ UNCHANGED <<managerVars, tsToken, mu, now, refreshing, issued, refreshCalls>>

\* ts.mu.Lock() (line 357)
Lock(c) ==
    /\ callers[c].pc = "lock"
    /\ mu = ""
    /\ mu' = c
    /\ Goto(c, "read")
    /\ UNCHANGED <<managerVars, tsToken, now, refreshing, issued, refreshCalls>>

\* token = ts.token (line 358)
ReadToken(c) ==
    /\ callers[c].pc = "read"
    /\ callers' = [callers EXCEPT ![c].pc = "unlock", ![c].token = tsToken]
    /\ UNCHANGED <<managerVars, tsToken, mu, now, refreshing, issued, refreshCalls>>

\* ts.mu.Unlock() (line 359)
Unlock(c) ==
    /\ callers[c].pc = "unlock"
    /\ mu' = ""
    /\ Goto(c, "check")
    /\ UNCHANGED <<managerVars, tsToken, now, refreshing, issued, refreshCalls>>

\* lines 360-365: return the cached token, or call ts.newIMTokenSource.Token()
Check(c) ==
    /\ callers[c].pc = "check"
    /\ IF TokenValid(callers[c].token, MarginTime, callers[c].now)
       THEN /\ callers' = [callers EXCEPT ![c].pc = "done", ![c].ret = callers[c].token, ![c].err = NoErr]
            /\ UNCHANGED refreshing
       ELSE /\ Goto(c, "refresh")
            /\ refreshing' = refreshing \cup {c}
    /\ UNCHANGED <<managerVars, tsToken, mu, now, issued, refreshCalls>>

\* newIMTokenSource.Token() returns a new token (line 365)
RefreshOK(c) ==
    /\ callers[c].pc = "refresh"
    /\ issued < MaxTokens
    /\ \E life \in Lifetimes :
          LET new == Ptr([AccessToken |-> issued + 1, Expiry |-> now + life])
              saw == callers[c].token
          IN  /\ callers' = [callers EXCEPT ![c].pc = "store", ![c].token = new, ![c].err = NoErr]
              /\ refreshCalls' = IF ~IsNil(saw) /\ TokenValid(new, MarginTime, now)
                                 THEN [refreshCalls EXCEPT ![Deref(saw).AccessToken] = @ + 1]
                                 ELSE refreshCalls
    /\ issued' = issued + 1
    /\ refreshing' = refreshing \ {c}
    /\ UNCHANGED <<managerVars, tsToken, mu, now>>

\* newIMTokenSource.Token() returns an error (line 365)
RefreshFail(c) ==
    /\ callers[c].pc = "refresh"
    /\ callers' = [callers EXCEPT ![c].pc = "errcheck", ![c].token = Nil, ![c].err = "failed to issue token"]
    /\ refreshing' = refreshing \ {c}
    /\ UNCHANGED <<managerVars, tsToken, mu, now, issued, refreshCalls>>

\* an error check that always hands the error to the caller
ErrCheck_Propagate(c) ==
    /\ callers[c].pc = "errcheck"
    /\ callers' = [callers EXCEPT ![c].pc = "done", ![c].ret = Nil]
    /\ UNCHANGED <<managerVars, tsToken, mu, now, refreshing, issued, refreshCalls>>

\* if ts.token == nil { return nil, err } (lines 367-370)
ErrCheck(c) ==
    /\ callers[c].pc = "errcheck"
    /\ IF IsNil(tsToken)
       THEN callers' = [callers EXCEPT ![c].pc = "done", ![c].ret = Nil]
       ELSE Goto(c, "stale")
    /\ UNCHANGED <<managerVars, tsToken, mu, now, refreshing, issued, refreshCalls>>

\* return ts.token, nil (line 372)
ReturnStale(c) ==
    /\ callers[c].pc = "stale"
    /\ callers' = [callers EXCEPT ![c].pc = "done", ![c].ret = tsToken, ![c].err = NoErr]
    /\ UNCHANGED <<managerVars, tsToken, mu, now, refreshing, issued, refreshCalls>>

\* ts.token = token; return token, nil (lines 375-376)
Store(c) ==
    /\ callers[c].pc = "store"
    /\ tsToken' = callers[c].token
    /\ callers' = [callers EXCEPT ![c].pc = "done", ![c].ret = callers[c].token, ![c].err = NoErr]
    /\ UNCHANGED <<managerVars, mu, now, refreshing, issued, refreshCalls>>

\* the caller takes the result; the goroutine may call Token() again
Return(c) ==
    /\ callers[c].pc = "done"
    /\ callers' = [callers EXCEPT ![c] = IdleCaller]
    /\ UNCHANGED <<managerVars, tsToken, mu, now, refreshing, issued, refreshCalls>>

\* the wall clock advances
Tick ==
    /\ now + TickSeconds <= MaxTime
    /\ now' = now + TickSeconds
    /\ UNCHANGED <<managerVars, tsToken, mu, callers, refreshing, issued, refreshCalls>>

(***************************************************************************)
(* Environments and specifications.                                        *)
(***************************************************************************)
NodeNames == {"n1", "n2"}

\* provider ID p names node n<p>; without cluster-api the provider ID is the machine UUID
KubeView(listErr) ==
    [listErr |-> listErr,
     providerIDs |-> <<"u1", "u2">>,
     nodeName |-> [p \in {"u1", "u2"} |-> [name |-> IF p = "u1" THEN "n1" ELSE "n2", err |-> NoErr]],
     machineUUID |-> [p \in {"u1", "u2"} |-> [uuid |-> p, err |-> NoErr]]]

\* with cluster-api and BareMetalHost: provider p<k> is node n<k> and machine u<k>;
\* a<k> says how its lookups end: "ok", "noName" (no node), "nameErr", "noUUID"
\* (no machine UUID) or "uuidErr"
KubeViewOf(a1, a2) ==
    LET a == [p \in {"p1", "p2"} |-> IF p = "p1" THEN a1 ELSE a2]
    IN  [listErr |-> NoErr,
         providerIDs |-> <<"p1", "p2">>,
         nodeName |-> [p \in {"p1", "p2"} |->
                          [name |-> IF a[p] \in {"noName", "nameErr"} THEN ""
                                    ELSE IF p = "p1" THEN "n1" ELSE "n2",
                           err |-> IF a[p] = "nameErr" THEN "node lookup error" ELSE NoErr]],
         machineUUID |-> [p \in {"p1", "p2"} |->
                             [uuid |-> IF a[p] \in {"noUUID", "uuidErr"} THEN ""
                                       ELSE IF p = "p1" THEN "u1" ELSE "u2",
                              err |-> IF a[p] = "uuidErr" THEN "machine lookup error" ELSE NoErr]]]

\* the fabric manager lists machine u1 with fabric pointer f1 and u2 with f2
FMMachines(f1, f2) ==
    [err |-> NoErr,
     Machines |-> <<[MachineUUID |-> "u1", FabricID |-> f1], [MachineUUID |-> "u2", FabricID |-> f2]>>]

\* the fabric manager lists machine u1 on fabric 1 and machine u2 on f2 (a pointer)
FMAnswer(f2) ==
    [err |-> NoErr,
     Machines |-> <<[MachineUUID |-> "u1", FabricID |-> Ptr(1)], [MachineUUID |-> "u2", FabricID |-> f2]>>]

FMError == [err |-> "FM error", Machines |-> <<>>]

\* no call of idManagerTokenSource.Token() is under way
ImIdle == [pc |-> "idle"]

\* the cachedIMTokenSource before its first call
TokenFields ==
    /\ tsToken = Nil
    /\ mu = ""
    /\ now = 0
    /\ callers = [c \in Callers |-> IdleCaller]
    /\ refreshing = {}
    /\ issued = 0
    /\ refreshCalls = [k \in 1..MaxTokens |-> 0]

TokenInit ==
    /\ im = ImIdle
    /\ TokenFields

\* the labels of a node the driver has never labelled
FreshLabels == [n \in NodeNames |-> [k \in {"kubernetes.io/hostname"} |-> n]]

\* the fields of the manager as StartCDIManager sets them (lines 145-164), on
\* a cluster whose nodes carry labels
ManagerFields(devInfos, options, labels) ==
    /\ deviceInfos = devInfos
    /\ labelPrefix = "cohdi.com"
    /\ cdiOptions = options
    /\ namedDriverResources = initDriverResources(devInfos)
    /\ nodeLabels = labels
    /\ muuids = EmptyMap
    /\ mList = <<>>
    /\ nodeGroups = <<>>
    /\ ngInfos = <<>>
    /\ machines = <<>>
    /\ fabricFound = EmptyMap
    /\ nodeGroupFound = EmptyMap
    /\ idx = 0
    /\ heap = EmptyMap
    /\ err = NoErr
    /\ calls = <<>>
    /\ published = [d \in DOMAIN initDriverResources(devInfos) |-> <<>>]
    /\ nodeUpdates = <<>>
    /\ atStart = [ndr |-> initDriverResources(devInfos),
                  nodeLabels |-> labels]
    /\ prev = [ran |-> FALSE, err |-> NoErr, updated |-> {}, published |-> FALSE,
               data |-> [muuids |-> EmptyMap, mList |-> <<>>, nodeGroups |-> <<>>, ngInfos |-> <<>>,
                         avail |-> EmptyMap, bounds |-> EmptyMap, asked |-> EmptyMap]]

\* the manager when StartCDIManager has reached wait.Until
ManagerInitOn(devInfos, options, labels) ==
    /\ ManagerFields(devInfos, options, labels)
    /\ pc = "idle"
    /\ proc = Launched(devInfos)

ManagerInit(devInfos, options) == ManagerInitOn(devInfos, options, FreshLabels)

\* Spec: two device models of two drivers, no cluster manager (useCM false)
EnvFM ==
    [kube |-> {KubeView(NoErr), KubeView("list error")},
     fm |-> {FMError} \cup {FMAnswer(f2) : f2 \in {Nil, Ptr(1), Ptr(2)}},
     avail |-> [mn \in {"DEVICE 1", "DEVICE 3"} |-> IF mn = "DEVICE 1" THEN 0..MaxAvail ELSE {1}],
     availFail |-> TRUE,
     node |-> {"updated", "noNode", "getErr", "updateErr"},
     history |-> FALSE]

Init ==
    /\ ManagerInit(<<DevInfo1, DevInfo3>>, [useCapiBmh |-> FALSE, useCM |-> FALSE, bindingTimeout |-> Nil])
    /\ TokenInit

Next ==
    \/ LoopStart
    \/ GetMachineUUIDs(EnvFM)
    \/ GetMachineList(EnvFM)
    \/ CreateMachines
    \/ GetAvailableNums(EnvFM)
    \/ CopyDeviceList
    \/ ManageCDIResourceSlices
    \/ ManageCDINodeLabel(EnvFM)
    \/ LoopEnd(EnvFM)

Spec == Init /\ [][Next]_vars

\* SpecCM: one device model, cluster manager in use (useCM true)
NodeGroupList == <<[Name |-> "group-1", UUID |-> "g1"], [Name |-> "group-2", UUID |-> "g2"]>>

\* node group g1 has members m1 and g2 has members m2; g1Err is the error of the g1 call
NodeGroupInfos(g1Err, m1, m2) ==
    [g \in {"g1", "g2"} |->
        [err |-> IF g = "g1" THEN g1Err ELSE NoErr,
         info |-> [UUID |-> g, MachineIDs |-> IF g = "g1" THEN m1 ELSE m2]]]

\* one resource spec selecting a model, with optional bounds
ResSpec(modelName, min, max) ==
    [Conditions |-> <<[Column |-> "model", Operator |-> "eq", Value |-> modelName]>>,
     MinResSpecCount |-> min, MaxResSpecCount |-> max]

EnvCM ==
    [kube |-> {KubeView(NoErr), KubeView("list error")},
     fm |-> {FMError, FMAnswer(Ptr(1))},
     nodeGroups |-> {[err |-> "CM error", NodeGroups |-> <<>>], [err |-> NoErr, NodeGroups |-> NodeGroupList]},
     ngInfo |-> {NodeGroupInfos("CM error", <<>>, <<>>)}
                \cup {NodeGroupInfos(NoErr, m1, m2) : m1 \in {<<>>, <<"u1">>, <<"u1", "u2">>}, m2 \in {<<>>, <<"u2">>}},
     avail |-> [mn \in {"DEVICE 1"} |-> {1}],
     availFail |-> TRUE,
     details |-> {<<>>, <<ResSpec("DEVICE 1", Ptr(1), Ptr(2))>>},
     detailsFail |-> TRUE,
     node |-> {"updated", "updateErr"},
     history |-> TRUE]

InitCM ==
    /\ ManagerInit(<<DevInfo1>>, [useCapiBmh |-> FALSE, useCM |-> TRUE, bindingTimeout |-> Nil])
    /\ TokenInit

NextCM ==
    \/ LoopStart
    \/ GetMachineUUIDs(EnvCM)
    \/ GetMachineList(EnvCM)
    \/ GetNodeGroups(EnvCM)
    \/ GetNodeGroupInfo(EnvCM)
    \/ CreateMachines
    \/ GetAvailableNums(EnvCM)
    \/ CopyDeviceList
    \/ GetMinMaxNums(EnvCM)
    \/ CopyMinMaxIntoMachines
    \/ ManageCDIResourceSlices
    \/ ManageCDINodeLabel(EnvCM)
    \/ LoopEnd(EnvCM)

SpecCM == InitCM /\ [][NextCM]_vars

\* SpecQuota: cluster manager in use and no collaborator fails; the members of
\* the node groups vary (a machine can be in both groups or in none) and the
\* node details hold no resource spec, one for "DEVICE 1" with both bounds,
\* with min only or with max only, or one for another model
EnvQuota ==
    [kube |-> {KubeView(NoErr)},
     fm |-> {FMAnswer(Ptr(1))},
     nodeGroups |-> {[err |-> NoErr, NodeGroups |-> NodeGroupList],
                     [err |-> NoErr, NodeGroups |-> <<NodeGroupList[2], NodeGroupList[1]>>]},
     ngInfo |-> {NodeGroupInfos(NoErr, m1, m2) : m1 \in {<<"u1">>, <<"u1", "u2">>}, m2 \in {<<>>, <<"u2">>}},
     avail |-> [mn \in {"DEVICE 1"} |-> {1}],
     availFail |-> FALSE,
     details |-> {<<>>, <<ResSpec("DEVICE 1", Ptr(1), Ptr(2))>>, <<ResSpec("DEVICE 1", Ptr(0), Nil)>>,
                  <<ResSpec("DEVICE 1", Nil, Ptr(2))>>, <<ResSpec("DEVICE 3", Ptr(1), Ptr(2))>>},
     detailsFail |-> FALSE,
     node |-> {"updated"},
     history |-> FALSE]

InitQuota ==
    /\ ManagerInit(<<DevInfo1>>, [useCapiBmh |-> FALSE, useCM |-> TRUE, bindingTimeout |-> Nil])
    /\ TokenInit

NextQuota ==
    \/ LoopStart
    \/ GetMachineUUIDs(EnvQuota)
    \/ GetMachineList(EnvQuota)
    \/ GetNodeGroups(EnvQuota)
    \/ GetNodeGroupInfo(EnvQuota)
    \/ CreateMachines
    \/ GetAvailableNums(EnvQuota)
    \/ CopyDeviceList
    \/ GetMinMaxNums(EnvQuota)
    \/ CopyMinMaxIntoMachines
    \/ ManageCDIResourceSlices
    \/ ManageCDINodeLabel(EnvQuota)
    \/ LoopEnd(EnvQuota)

SpecQuota == InitQuota /\ [][NextQuota]_vars

\* SpecRestart: the manager runs without the cluster manager (useCM false) on a
\* cluster where an earlier run with the cluster manager labelled node n1
StaleLabels ==
    [n \in NodeNames |->
        IF n = "n1"
        THEN MapSet(MapSet(MapSet(FreshLabels[n], "cohdi.com/fabric", "2"),
                           "cohdi.com/test-device-1-size-max", "2"),
                    "cohdi.com/test-device-1-size-min", "1")
        ELSE FreshLabels[n]]

EnvRestart ==
    [kube |-> {KubeView(NoErr)},
     fm |-> {FMAnswer(f2) : f2 \in {Ptr(1), Ptr(2)}},
     avail |-> [mn \in {"DEVICE 1"} |-> 0..MaxAvail],
     availFail |-> FALSE,
     node |-> {"updated", "noNode", "updateErr"},
     history |-> FALSE]

InitRestart ==
    /\ ManagerInitOn(<<DevInfo1>>, [useCapiBmh |-> FALSE, useCM |-> FALSE, bindingTimeout |-> Nil],
                     StaleLabels)
    /\ TokenInit

NextRestart ==
    \/ LoopStart
    \/ GetMachineUUIDs(EnvRestart)
    \/ GetMachineList(EnvRestart)
    \/ CreateMachines
    \/ GetAvailableNums(EnvRestart)
    \/ CopyDeviceList
    \/ ManageCDIResourceSlices
    \/ ManageCDINodeLabel(EnvRestart)
    \/ LoopEnd(EnvRestart)

SpecRestart == InitRestart /\ [][NextRestart]_vars

\* SpecProc: the process from its command line on: the binding-timeout flag is
\* absent or given, in and out of its range, the cluster has DRA enabled or
\* not, the first ResourceSlice controller starts or not, and a signal can
\* arrive at any time once the Action waits
BindingTimeouts == {Nil, Ptr(0 - 1), Ptr(0), Ptr(600), Ptr(MaxBindingTimeout), Ptr(MaxBindingTimeout + 1)}

EnvProc ==
    [kube |-> {KubeView(NoErr)},
     fm |-> {FMAnswer(f2) : f2 \in {Ptr(1), Ptr(2)}},
     avail |-> [mn \in {"DEVICE 1", "DEVICE 3"} |-> {1}],
     availFail |-> FALSE,
     node |-> {"updated"},
     history |-> FALSE]

InitProc ==
    /\ ManagerFields(<<DevInfo1, DevInfo3>>, [useCapiBmh |-> FALSE, useCM |-> FALSE, bindingTimeout |-> Nil],
                     FreshLabels)
    /\ pc = "unstarted"
    /\ proc \in {Starting(t, dra, ctlFail) : t \in BindingTimeouts, dra \in BOOLEAN, ctlFail \in BOOLEAN}
    /\ TokenInit

NextProc ==
    \/ ParseFlags
    \/ StartResourceSliceController
    \/ Signal
    \/ RecvErr
    \/ Exit
    \/ Stop
    \/ LoopStart
    \/ GetMachineUUIDs(EnvProc)
    \/ GetMachineList(EnvProc)
    \/ CreateMachines
    \/ GetAvailableNums(EnvProc)
    \/ CopyDeviceList
    \/ ManageCDIResourceSlices
    \/ ManageCDINodeLabel(EnvProc)
    \/ LoopEnd(EnvProc)

SpecProc == InitProc /\ [][NextProc]_vars

\* the scheduler runs every goroutine that can take a step
FairSpecProc == SpecProc /\ WF_vars(NextProc)

\* SpecBmh: cluster-api with BareMetalHost and cluster manager in use; the
\* lookups of the provider IDs and the fabric of each machine vary, and the
\* loop can be cancelled between two passes
LookupOutcomes == {"ok", "noName", "nameErr", "noUUID", "uuidErr"}

EnvBmh ==
    [kube |-> {KubeView("list error")} \cup {KubeViewOf(a1, a2) : a1, a2 \in LookupOutcomes},
     fm |-> {FMMachines(f1, f2) : f1 \in {Nil, Ptr(1)}, f2 \in {Nil, Ptr(1), Ptr(2)}},
     nodeGroups |-> {[err |-> NoErr, NodeGroups |-> NodeGroupList]},
     ngInfo |-> {NodeGroupInfos(NoErr, <<"u1">>, <<"u2">>)},
     avail |-> [mn \in {"DEVICE 1"} |-> {1}],
     availFail |-> FALSE,
     details |-> {<<ResSpec("DEVICE 1", Ptr(1), Ptr(2))>>},
     detailsFail |-> FALSE,
     node |-> {"updated"},
     history |-> FALSE]

InitBmh ==
    /\ ManagerInit(<<DevInfo1>>, [useCapiBmh |-> TRUE, useCM |-> TRUE, bindingTimeout |-> Nil])
    /\ TokenInit

NextBmh ==
    \/ LoopStart
    \/ GetMachineUUIDs(EnvBmh)
    \/ GetMachineList(EnvBmh)
    \/ GetNodeGroups(EnvBmh)
    \/ GetNodeGroupInfo(EnvBmh)
    \/ CreateMachines
    \/ GetAvailableNums(EnvBmh)
    \/ CopyDeviceList
    \/ GetMinMaxNums(EnvBmh)
    \/ CopyMinMaxIntoMachines
    \/ ManageCDIResourceSlices
    \/ ManageCDINodeLabel(EnvBmh)
    \/ LoopEnd(EnvBmh)
    \/ Cancel

SpecBmh == InitBmh /\ [][NextBmh]_vars

\* wait.Until keeps calling the closure and every call of the pass returns
FairSpecBmh == SpecBmh /\ WF_vars(NextBmh)

\* SpecToken: the goroutines of Callers share one cachedIMTokenSource
InitToken ==
    /\ ManagerInit(<<DevInfo1>>, [useCapiBmh |-> FALSE, useCM |-> FALSE, bindingTimeout |-> Nil])
    /\ TokenInit

NextToken ==
    \/ \E c \in Callers :
          \/ Call(c)
          \/ Lock(c)
          \/ ReadToken(c)
          \/ Unlock(c)
          \/ Check(c)
          \/ RefreshOK(c)
          \/ RefreshFail(c)
          \/ ErrCheck(c)
          \/ ReturnStale(c)
          \/ Store(c)
          \/ Return(c)
    \/ Tick

SpecToken == InitToken /\ [][NextToken]_vars

(***************************************************************************)
(* idManagerTokenSource.Token(): the secret of the identity service        *)
(* (test_helper.go lines 384-467).  A field of the secret is modelled by   *)
(* its length in bytes; string(secret.Data[k]) keeps the length, and a     *)
(* missing key gives the empty string.                                     *)
(***************************************************************************)
secretAccessInfoLength == 1000

\* the fields in the order getIdManagerSecret reads them
SecretFields == <<"username", "password", "realm", "client_id", "client_secret">>

SecretFieldSet == {SecretFields[i] : i \in 1..Len(SecretFields)}

\* lengths around the limit, as ExceededSecretInfo and UnExceededSecretInfo
\* (lines 41-42), and the empty field
SecretLengths == {0, secretAccessInfoLength - 1, secretAccessInfoLength, secretAccessInfoLength + 1}

\* var imSecret idManagerSecret: every field the empty string
EmptyImSecret == [f \in SecretFieldSet |-> 0]

\* what GetSecret(secretKey) answers
Secrets ==
    {[kind |-> k, len |-> EmptyImSecret] : k \in {"err", "nil", "noData"}}
        \cup {[kind |-> "data", len |-> l] : l \in [SecretFieldSet -> SecretLengths]}

\* a token source whose Token() has not been called, with the answers it will get
ImReady(secret, api) ==
    [pc |-> "idle", secret |-> secret, api |-> api, field |-> 0, imSecret |-> EmptyImSecret,
     err |-> NoErr, issueCalls |-> 0, sent |-> <<>>, token |-> Nil]

\* a length test that lets a field of exactly the limit pass
LengthOK_Incl(n) == n <= secretAccessInfoLength

\* len(x) < secretAccessInfoLength
LengthOK(n) == n < secretAccessInfoLength

\* Token() is called (line 384)
ImToken ==
    /\ im.pc = "idle"
    /\ im' = [im EXCEPT !.pc = "getSecret"]
    /\ UNCHANGED <<deviceInfos, labelPrefix, cdiOptions, proc, namedDriverResources, nodeLabels, pc,
                   localVars, err, logVars, atStart, prev, tokenVars>>

\* secret, err := ts.kubecontrollers.GetSecret(secretKey) (lines 424-430)
GetSecret ==
    /\ im.pc = "getSecret"
    /\ im' = IF im.secret.kind = "err"
                THEN [im EXCEPT !.pc = "done", !.err = "failed to get secret"]
             ELSE IF im.secret.kind = "data"
                THEN [im EXCEPT !.pc = "checkField", !.field = 1]
             ELSE [im EXCEPT !.pc = "getIMToken"]
    /\ UNCHANGED <<deviceInfos, labelPrefix, cdiOptions, proc, namedDriverResources, nodeLabels, pc,
                   localVars, err, logVars, atStart, prev, tokenVars>>

\* one of the five blocks of lines 430-463
CheckField ==
    /\ im.pc = "checkField"
    /\ LET f == SecretFields[im.field]
           n == im.secret.len[f]
       IN  im' = IF LengthOK(n)
                    THEN [im EXCEPT !.imSecret[f] = n,
                                    !.field = IF im.field = Len(SecretFields) THEN 0 ELSE @ + 1,
                                    !.pc = IF im.field = Len(SecretFields) THEN "getIMToken" ELSE @]
                 ELSE [im EXCEPT !.pc = "done", !.err = f \o " length exceeds the limitation"]
    /\ UNCHANGED <<deviceInfos, labelPrefix, cdiOptions, proc, namedDriverResources, nodeLabels, pc,
                   localVars, err, logVars, atStart, prev, tokenVars>>

\* imToken, err := ts.cdiclient.GetIMToken(ctx, secret) (lines 392-396): the
\* IssueToken request carries the fields of imSecret
GetIMToken ==
    /\ im.pc = "getIMToken"
    /\ im' = [im EXCEPT !.pc = "done",
                        !.issueCalls = @ + 1,
                        !.sent = im.imSecret,
                        !.err = IF im.api = "fail" THEN "IM token API failed" ELSE NoErr,
                        !.token = IF im.api = "fail" THEN Nil ELSE Ptr("token")]
    /\ UNCHANGED <<deviceInfos, labelPrefix, cdiOptions, proc, namedDriverResources, nodeLabels, pc,
                   localVars, err, logVars, atStart, prev, tokenVars>>

\* SpecSecret: one call of Token() for every secret and answer of the API
InitSecret ==
    /\ ManagerInit(<<DevInfo1>>, [useCapiBmh |-> FALSE, useCM |-> FALSE, bindingTimeout |-> Nil])
    /\ TokenFields
    /\ \E secret \in Secrets, api \in {"ok", "fail"} : im = ImReady(secret, api)

NextSecret ==
    \/ ImToken
    \/ GetSecret
    \/ CheckField
    \/ GetIMToken

SpecSecret == InitSecret /\ [][NextSecret]_vars

(***************************************************************************)
(* Claims about the pools.                                                 *)
(***************************************************************************)
\* the step of a pass that runs manageCDIResourceSlices
PublishStep == pc = "manageCDIResourceSlices" /\ pc' = "manageCDINodeLabel"

\* decimal text of a small number, written out
Text(n) == <<"0", "1", "2", "3", "4", "5", "6", "7", "8", "9">>[n + 1]

\* what the current pass observed: per machine and device model, the pool it stands for
ObservedPools ==
    {[driverName |-> heap[machines[i].deviceList[mn]].driverName,
      k8sDeviceName |-> heap[machines[i].deviceList[mn]].k8sDeviceName,
      fabricID |-> machines[i].fabricID[1],
      poolName |-> heap[machines[i].deviceList[mn]].k8sDeviceName \o "-fabric" \o Text(machines[i].fabricID[1]),
      count |-> heap[machines[i].deviceList[mn]].availableDeviceCount] :
        i \in 1..Len(machines), mn \in ModelNames(deviceInfos)}

\* the device entries of a pool are named D-gpu0 .. D-gpu(n-1)
EntriesAre(pool, k8sDeviceName, n) ==
    /\ Len(pool.Slices) = 1
    /\ Len(pool.Slices[1].Devices) = n
    /\ \A k \in 1..n : pool.Slices[1].Devices[k].Name = k8sDeviceName \o "-gpu" \o Text(k - 1)

C1_Step ==
    /\ PublishStep =>
          \A o \in ObservedPools :
              LET old == namedDriverResources[o.driverName].Pools
                  new == namedDriverResources'[o.driverName].Pools
              IN  o.poolName \in DOMAIN old =>
                      IF Len(old[o.poolName].Slices[1].Devices) # o.count
                      THEN /\ new[o.poolName].Generation = old[o.poolName].Generation + 1
                           /\ EntriesAre(new[o.poolName], o.k8sDeviceName, o.count)
                      ELSE new[o.poolName] = old[o.poolName]
    /\ \A d \in DOMAIN namedDriverResources :
          \A pn \in DOMAIN namedDriverResources[d].Pools :
              /\ pn \in DOMAIN namedDriverResources'[d].Pools
              /\ namedDriverResources'[d].Pools[pn].Generation >= namedDriverResources[d].Pools[pn].Generation

\* C1: for a pool that already exists, a pass that observes an available count
\* different from the pool's number of device entries raises the generation by
\* exactly 1 and regenerates the entries; a pass that observes the same count
\* leaves the pool as it is; no step ever lowers a generation.
C1_Generation == [][C1_Step]_vars

\* a pass has just bumped a pool to generation 2 by observing no device at all
C1_Witness ==
    /\ pc = "manageCDINodeLabel"
    /\ \E d \in DOMAIN namedDriverResources :
          /\ published[d] # <<>>
          /\ \E pn \in DOMAIN namedDriverResources[d].Pools :
                /\ namedDriverResources[d].Pools[pn].Generation = 2
                /\ Len(namedDriverResources[d].Pools[pn].Slices[1].Devices) = 0
                /\ Len(atStart.ndr[d].Pools[pn].Slices[1].Devices) > 0

C6_Step ==
    PublishStep =>
        \A o \in ObservedPools :
            (/\ o.driverName \in DOMAIN namedDriverResources
             /\ o.poolName \notin DOMAIN namedDriverResources[o.driverName].Pools)
            => /\ o.poolName \in DOMAIN namedDriverResources'[o.driverName].Pools
               /\ LET pool == namedDriverResources'[o.driverName].Pools[o.poolName]
                  IN  /\ pool.Generation = 1
                      /\ EntriesAre(pool, o.k8sDeviceName, o.count)
                      /\ pool.NodeSelector =
                            <<[Key |-> labelPrefix \o "/" \o o.k8sDeviceName, Operator |-> "In",
                               Values |-> <<"true">>],
                              [Key |-> labelPrefix \o "/fabric", Operator |-> "In",
                               Values |-> <<Text(o.fabricID)>>]>>

\* C6: when a pass reaches manageCDIResourceSlices with fabric F and a device
\* model of k8s name D (its driver is tracked) for which no pool exists yet, it
\* creates pool "D-fabric<F>" in that driver's pool set with generation 1,
\* exactly n entries D-gpu0 .. D-gpu(n-1) for the observed count n, and a node
\* selector on <prefix>/D = "true" and <prefix>/fabric = "<F>".
C6_FirstPool == [][C6_Step]_vars

\* the first pass has just created test-device-1-fabric2 for an observed count of 1
C6_Witness ==
    /\ pc = "manageCDINodeLabel"
    /\ ~prev.ran
    /\ "test-device-1-fabric2" \in DOMAIN namedDriverResources["test-driver-1"].Pools
    /\ LET pool == namedDriverResources["test-driver-1"].Pools["test-device-1-fabric2"]
       IN  /\ pool.Generation = 1
           /\ Len(pool.Slices[1].Devices) = 1
           /\ pool.Slices[1].Devices[1].Name = "test-device-1-gpu0"
           /\ pool.NodeSelector[1].Key = "cohdi.com/test-device-1"
           /\ pool.NodeSelector[2].Values = <<"2">>

C9_Step ==
    /\ PublishStep =>
          \A d \in DOMAIN namedDriverResources :
              LET old == namedDriverResources[d].Pools
                  new == namedDriverResources'[d].Pools
                  changed == \E pn \in DOMAIN new : pn \notin DOMAIN old \/ new[pn] # old[pn]
              IN  /\ Len(published'[d]) <= 1
                  /\ Len(published'[d]) = 1 <=> changed
                  /\ Len(published'[d]) = 1 => published'[d][1] = namedDriverResources'[d]
    /\ (pc \notin {"idle", "manageCDIResourceSlices"}) => published' = published

\* C9: in a pass that reaches manageCDIResourceSlices the controller of a
\* driver is updated at most once, exactly when one of the driver's pools was
\* created or regenerated in this pass, with the driver's complete pool set;
\* no other step of the pass publishes, so a driver without a changed pool
\* gets no call.
C9_PublishPerDriver == [][C9_Step]_vars

\* driver 1 was just published with a regenerated pool and an unchanged one,
\* while driver 2, which has pools, was not
C9_Witness ==
    /\ pc = "manageCDINodeLabel"
    /\ Len(published["test-driver-1"]) = 1
    /\ published["test-driver-2"] = <<>>
    /\ DOMAIN namedDriverResources["test-driver-2"].Pools # {}
    /\ \E p1, p2 \in DOMAIN published["test-driver-1"][1].Pools :
          /\ published["test-driver-1"][1].Pools[p1].Generation = 2
          /\ p2 \in DOMAIN atStart.ndr["test-driver-1"].Pools
          /\ published["test-driver-1"][1].Pools[p2] = atStart.ndr["test-driver-1"].Pools[p2]

(***************************************************************************)
(* Claims about a whole pass.                                              *)
(***************************************************************************)
\* two passes were answered the same data: the same nodes and machines, machine
\* list, node groups and members, available counts per fabric and updated
\* nodes, and the same bounds for every node group; machines of no node group
\* share no bounds, so for them the bounds are the same when the same machine
\* was asked
SameData(a, b) ==
    /\ a.muuids = b.muuids
    /\ a.mList = b.mList
    /\ a.nodeGroups = b.nodeGroups
    /\ a.ngInfos = b.ngInfos
    /\ a.avail = b.avail
    /\ DOMAIN a.bounds = DOMAIN b.bounds
    /\ \A ng \in DOMAIN a.bounds :
          (ng # "" \/ a.asked[ng] = b.asked[ng]) => a.bounds[ng] = b.bounds[ng]

NothingPublished == \A d \in DOMAIN published : published[d] = <<>>

\* C7: when a pass has succeeded after a successful pass and both were
\* answered the same data, the second pass changed no pool, updated no
\* controller and left every node's labels as the first pass left them.
C7_Idempotent ==
    (/\ pc = "return"
     /\ err = NoErr
     /\ prev.ran
     /\ prev.err = NoErr
     /\ SameData(prev.data, PassData)
     /\ UpdatedNodes(nodeUpdates) = prev.updated)
    => /\ namedDriverResources = atStart.ndr
       /\ NothingPublished
       /\ nodeLabels = atStart.nodeLabels

\* the overlay step: lines 328-343
OverlayStep == pc = "copyMinMax" /\ pc' = "manageCDIResourceSlices"

\* the bound a device holds after the overlay of limit (a pointer, or none)
Overlaid(old, limit) == IF limit = Nil THEN old ELSE limit

NoSharedDevice ==
    \A i, j \in 1..Len(machines) :
        \A mi \in DOMAIN machines[i].deviceList :
            \A mj \in DOMAIN machines[j].deviceList :
                machines[i].deviceList[mi] = machines[j].deviceList[mj] => (i = j /\ mi = mj)

C8_Step ==
    /\ NoSharedDevice
    /\ OverlayStep =>
          \A i \in 1..Len(machines) :
              \A mn \in DOMAIN machines[i].deviceList :
                  LET a == machines[i].deviceList[mn]
                      ng == machines[i].nodeGroupUUID
                      limit == nodeGroupFound[ng][mn]
                  IN  /\ heap'[a].minDeviceCount = Overlaid(heap[a].minDeviceCount, limit.min)
                      /\ heap'[a].maxDeviceCount = Overlaid(heap[a].maxDeviceCount, limit.max)
                      /\ [heap'[a] EXCEPT !.minDeviceCount = Nil, !.maxDeviceCount = Nil]
                            = [heap[a] EXCEPT !.minDeviceCount = Nil, !.maxDeviceCount = Nil]

\* C8: no two machines ever hold the same device object, and the overlay of
\* the bounds gives every machine's devices the bounds of that machine's own
\* node group and changes nothing else: the bounds of one machine never reach
\* the device list of a machine of another node group on the same fabric.
C8_Isolation == [][C8_Step]_vars

\* two machines of one fabric and different node groups, after the overlay:
\* one holds the bounds 1..2 and the other none
C8_Witness ==
    /\ pc = "manageCDIResourceSlices"
    /\ \E i, j \in 1..Len(machines) :
          /\ machines[i].fabricID = machines[j].fabricID
          /\ machines[i].nodeGroupUUID = "g1"
          /\ machines[j].nodeGroupUUID = "g2"
          /\ heap[machines[i].deviceList["DEVICE 1"]].maxDeviceCount = Ptr(2)
          /\ heap[machines[i].deviceList["DEVICE 1"]].minDeviceCount = Ptr(1)
          /\ heap[machines[j].deviceList["DEVICE 1"]].maxDeviceCount = Nil
          /\ heap[machines[j].deviceList["DEVICE 1"]].minDeviceCount = Nil

\* the collaborator call that failed in this pass, or ""
FailedCall ==
    IF Len(calls) >= 2 /\ calls[Len(calls)] = Failed THEN calls[Len(calls) - 1][1] ELSE ""

\* C10: once a call of steps 1-5 has failed (listing the provider IDs,
\* ListMachines, ListNodeGroups, NodeGroupMembers, AvailableCount,
\* NodeDetails) the pass returns an error, the pools are what they were when
\* the pass began, no controller was updated and no node was updated.
C10_FailedPass ==
    FailedCall \in {"ListProviderIDs", "FindNodeNameByProviderID", "FindMachineUUIDByProviderID",
                    "ListMachines", "ListNodeGroups", "NodeGroupMembers", "AvailableCount", "NodeDetails"}
    => /\ pc \in {"return", "idle"}
       /\ err # NoErr
       /\ namedDriverResources = atStart.ndr
       /\ NothingPublished
       /\ nodeUpdates = <<>>
       /\ nodeLabels = atStart.nodeLabels

\* a pass that follows one which created a pool has failed on NodeDetails
C10_Witness ==
    /\ pc = "return"
    /\ FailedCall = "NodeDetails"
    /\ prev.ran
    /\ \E d \in DOMAIN atStart.ndr : DOMAIN atStart.ndr[d].Pools # {}

(***************************************************************************)
(* Claims about the cached token source.                                   *)
(***************************************************************************)
\* C2: at most one call of the underlying refresh operation
\* (newIMTokenSource.Token) is in progress at any instant.
C2_OneRefreshAtATime == Cardinality(refreshing) <= 1

\* C3: for a cached token that has come within the margin of its expiry, the
\* refresh operation is invoked once in total by the callers that read it,
\* when the refresh succeeds with a token valid beyond the margin: no cached
\* token is refreshed successfully by more than one of its readers.
C3_SingleRefresh == \A k \in 1..MaxTokens : refreshCalls[k] <= 1

C4_Step ==
    \A c \in Callers :
        /\ (callers[c].pc = "read" /\ callers'[c].pc # "read") => callers'[c].token = tsToken
        /\ (callers[c].pc = "check" /\ callers'[c].pc # "check") =>
              IF callers[c].token # Nil /\ callers[c].now < callers[c].token[1].Expiry - 30
              THEN /\ callers'[c].pc = "done"
                   /\ callers'[c].ret = callers[c].token
                   /\ callers'[c].err = ""
                   /\ refreshing' = refreshing
                   /\ issued' = issued
              ELSE /\ callers'[c].pc = "refresh"
                   /\ refreshing' = refreshing \cup {c}
        /\ (c \in refreshing' /\ c \notin refreshing) => callers[c].pc = "check"

\* C4: a call that read a cached token with now < expiry - 30 s returns that
\* token with no error and does not invoke the refresh operation; a call that
\* read no token, or one with now >= expiry - 30 s, invokes the refresh
\* operation; the refresh operation is invoked nowhere else.
C4_CachedOrRefresh == [][C4_Step]_vars

\* one caller is refreshing a token it read exactly 30 s before its expiry while
\* another has got a cached token back more than 30 s before its expiry
C4_Witness ==
    \E c, d \in Callers :
        /\ callers[c].pc = "refresh"
        /\ callers[c].token # Nil
        /\ callers[c].now = callers[c].token[1].Expiry - 30
        /\ callers[d].pc = "done"
        /\ callers[d].ret # Nil
        /\ callers[d].ret = callers[d].token
        /\ callers[d].now < callers[d].ret[1].Expiry - 30
        /\ callers[d].ret[1].AccessToken = issued

C5_Step ==
    /\ tsToken # Nil => tsToken' # Nil
    /\ \A c \in Callers :
          \* the refresh has failed: the cache stays, and the error is returned only without a cached token
          /\ (callers[c].pc = "refresh" /\ callers'[c].pc = "errcheck") => tsToken' = tsToken
          /\ (callers[c].pc = "errcheck" /\ callers'[c].pc # "errcheck") =>
                /\ tsToken' = tsToken
                /\ IF tsToken = Nil
                   THEN callers'[c].pc = "done" /\ callers'[c].ret = Nil /\ callers'[c].err # ""
                   ELSE callers'[c].pc = "stale"
          /\ (callers[c].pc = "stale" /\ callers'[c].pc # "stale") =>
                /\ tsToken' = tsToken
                /\ callers'[c].pc = "done"
                /\ callers'[c].ret = tsToken
                /\ callers'[c].ret # Nil
                /\ callers'[c].err = ""
          \* the refresh has succeeded: the new token replaces the cache and is returned
          /\ (callers[c].pc = "refresh" /\ callers'[c].pc # "refresh" /\ callers'[c].pc # "errcheck") =>
                /\ callers'[c].pc = "store"
                /\ callers'[c].token # Nil
                /\ callers'[c].token[1].AccessToken = issued'
          /\ (callers[c].pc = "store" /\ callers'[c].pc # "store") =>
                /\ tsToken' = callers[c].token
                /\ callers'[c].pc = "done"
                /\ callers'[c].ret = callers[c].token
                /\ callers'[c].err = ""

\* C5: after a failed refresh a call returns the cached token with no error
\* when there is one and the refresh error with no token when there is none,
\* and leaves the cache as it is; after a successful refresh it stores the new
\* token in the cache and returns it.  A cached token is never removed.
C5_RefreshOutcome == [][C5_Step]_vars

\* a call whose refresh failed has returned the cached token, which is
\* already past its expiry
C5_Witness ==
    \E c \in Callers :
        /\ callers[c].pc = "done"
        /\ callers[c].token = Nil
        /\ callers[c].ret # Nil
        /\ callers[c].ret = tsToken
        /\ callers[c].err = ""
        /\ callers[c].ret[1].Expiry <= callers[c].now

(***************************************************************************)
(* Claims about the machines of a pass.                                    *)
(***************************************************************************)
\* the calls of the log with the given name
CallsOf(log, name) == {k \in 1..Len(log) : log[k][1] = name}

\* the provider IDs for which the log holds a node name, and a machine UUID
Named(log) == {log[k][2] : k \in {x \in CallsOf(log, "FindNodeNameByProviderID") : log[x][3] # ""}}

WithUUID(log) == {log[k][2] : k \in {x \in CallsOf(log, "FindMachineUUIDByProviderID") : log[x][3] # ""}}

Resolved(log) == IF cdiOptions.useCapiBmh THEN Named(log) \cap WithUUID(log) ELSE Named(log)

\* the machine UUIDs the machines snapshot gives a fabric ID
OnFabric(ml) == {ml[i].MachineUUID : i \in {x \in 1..Len(ml) : ml[x].FabricID # Nil}}

NoMachineErrors == {"not any machine uuid is found", "not any machine is found to process"}

C11_Step ==
    /\ err \in NoMachineErrors =>
          /\ pc \in {"return", "idle", "stopped"}
          /\ CallsOf(calls, "AvailableCount") = {}
          /\ namedDriverResources = atStart.ndr
          /\ NothingPublished
          /\ nodeUpdates = <<>>
          /\ nodeLabels = atStart.nodeLabels
    /\ (pc = "getMachineUUIDs" /\ pc' # pc /\ CallsOf(calls', "ERROR") = {} /\ Resolved(calls') = {})
          => (pc' = "return" /\ err' = "not any machine uuid is found")
    /\ (pc = "createMachines" /\ pc' # pc /\ \A n \in DOMAIN muuids : muuids[n] \notin OnFabric(mList))
          => (pc' = "return" /\ err' = "not any machine is found to process")

\* C11: a pass whose lookups resolve no node to a machine UUID, and a pass in
\* which no machine of the map has a fabric ID in the machines snapshot, return
\* a no-machines error; a pass that returned one has made no AvailableCount
\* call, changed no pool, updated no controller and updated no node.
C11_NoMachines == [][C11_Step]_vars

\* after a pass that created a pool, a pass found no machine with a fabric ID
C11_Witness ==
    /\ pc = "return"
    /\ err = "not any machine is found to process"
    /\ DOMAIN muuids = {"n1", "n2"}
    /\ prev.ran
    /\ \E d \in DOMAIN atStart.ndr : DOMAIN atStart.ndr[d].Pools # {}

\* the machine is a member of no node group the cluster manager reported
InNoNodeGroup(m) == \A g \in 1..Len(ngInfos) : ~Contains(ngInfos[g].MachineIDs, m.machineUUID)

\* C12: with the cluster manager in use, a machine that is a member of no node
\* group has, once the model of the pass is assembled, no min and no max bound
\* for any device model.
C12_NoBoundsOutsideGroups ==
    (cdiOptions.useCM /\ pc = "manageCDIResourceSlices") =>
        \A i \in 1..Len(machines) :
            InNoNodeGroup(machines[i]) =>
                \A mn \in DOMAIN machines[i].deviceList :
                    /\ heap[machines[i].deviceList[mn]].minDeviceCount = Nil
                    /\ heap[machines[i].deviceList[mn]].maxDeviceCount = Nil

\* the labels of node n say what the model holds for machine m and its devices
LabelsMatch(n, m) ==
    LET labels == nodeLabels[n]
    IN  /\ (labelPrefix \o "/fabric") \in DOMAIN labels
        /\ labels[labelPrefix \o "/fabric"] = Text(m.fabricID[1])
        /\ \A mn \in DOMAIN m.deviceList :
              LET device == heap[m.deviceList[mn]]
                  maxKey == labelPrefix \o "/" \o device.k8sDeviceName \o "-size-max"
                  minKey == labelPrefix \o "/" \o device.k8sDeviceName \o "-size-min"
              IN  /\ IF device.maxDeviceCount = Nil THEN maxKey \notin DOMAIN labels
                     ELSE maxKey \in DOMAIN labels /\ labels[maxKey] = Text(device.maxDeviceCount[1])
                  /\ IF device.minDeviceCount = Nil THEN minKey \notin DOMAIN labels
                     ELSE minKey \in DOMAIN labels /\ labels[minKey] = Text(device.minDeviceCount[1])

\* C13: when a pass with the cluster manager in use has succeeded, the node of
\* every machine carries the machine's fabric ID as its fabric label and, per
\* device model D, D-size-max / D-size-min equal to the decimal bound when the
\* bound exists and no such label when it does not.
C13_LabelsAfterPass ==
    (cdiOptions.useCM /\ pc = "return" /\ err = NoErr) =>
        \A i \in 1..Len(machines) :
            machines[i].nodeName \in UpdatedNodes(nodeUpdates) => LabelsMatch(machines[i].nodeName, machines[i])

\* a successful pass has removed the size labels of n1, which the pass before
\* had set, and has set those of n2
C13_Witness ==
    /\ cdiOptions.useCM /\ pc = "return" /\ err = NoErr
    /\ UpdatedNodes(nodeUpdates) = {"n1", "n2"}
    /\ "cohdi.com/test-device-1-size-max" \in DOMAIN atStart.nodeLabels["n1"]
    /\ "cohdi.com/test-device-1-size-max" \notin DOMAIN nodeLabels["n1"]
    /\ "cohdi.com/test-device-1-size-min" \notin DOMAIN nodeLabels["n1"]
    /\ nodeLabels["n1"]["cohdi.com/fabric"] = "1"
    /\ "cohdi.com/test-device-1-size-max" \in DOMAIN nodeLabels["n2"]
    /\ nodeLabels["n2"]["cohdi.com/test-device-1-size-max"] = "2"
    /\ nodeLabels["n2"]["cohdi.com/test-device-1-size-min"] = "1"

(***************************************************************************)
(* Claims about label sync.                                                *)
(***************************************************************************)
\* the GetNode calls of the pass, in order, and those that returned a node
NodeReads == SelectSeq(calls, LAMBDA c : c[1] = "GetNode")

NodesFound == SelectSeq(NodeReads, LAMBDA c : Len(c) = 3 /\ c[3] = "node")

\* C14: in a pass the nodes of the machines are read in order, each at most
\* once; exactly one Update is issued per node that was found, carrying the
\* node's labels with the fabric label of its machine; only the last Update of
\* a pass can have failed, and then the pass has returned the error, no later
\* machine's node was read, the nodes updated before keep the labels written
\* and the controllers keep the pools published in this pass.
C14_OneUpdatePerNode ==
    /\ Len(NodeReads) <= Len(machines)
    /\ \A k \in 1..Len(NodeReads) : NodeReads[k][2] = machines[k].nodeName
    /\ Len(nodeUpdates) = Len(NodesFound)
    /\ \A j \in 1..Len(nodeUpdates) :
          /\ nodeUpdates[j].nodeName = NodesFound[j][2]
          /\ \A k \in 1..Len(machines) :
                machines[k].nodeName = nodeUpdates[j].nodeName =>
                    nodeUpdates[j].labels[labelPrefix \o "/fabric"] = Text(machines[k].fabricID[1])
          /\ \A k \in 1..Len(nodeUpdates) : nodeUpdates[k].nodeName = nodeUpdates[j].nodeName => k = j
          /\ j < Len(nodeUpdates) => nodeUpdates[j].ok
          /\ nodeUpdates[j].ok => nodeLabels[nodeUpdates[j].nodeName] = nodeUpdates[j].labels
    /\ (nodeUpdates # <<>> /\ ~nodeUpdates[Len(nodeUpdates)].ok) =>
          /\ pc \in {"return", "idle"}
          /\ err # NoErr
          /\ NodeReads[Len(NodeReads)][2] = nodeUpdates[Len(nodeUpdates)].nodeName
          /\ nodeLabels[nodeUpdates[Len(nodeUpdates)].nodeName]
                = atStart.nodeLabels[nodeUpdates[Len(nodeUpdates)].nodeName]
          /\ \A d \in DOMAIN published :
                published[d] # <<>> => namedDriverResources[d] = published[d][1]
    /\ (pc = "return" /\ err = NoErr) => Len(NodeReads) = Len(machines)

\* the pass published a new pool, updated n1 or n2, and returned when the
\* update of the other node failed
C14_Witness ==
    /\ pc = "return"
    /\ Len(nodeUpdates) = 2
    /\ nodeUpdates[1].ok
    /\ ~nodeUpdates[2].ok
    /\ (labelPrefix \o "/fabric") \notin DOMAIN atStart.nodeLabels[nodeUpdates[1].nodeName]
    /\ (labelPrefix \o "/fabric") \in DOMAIN nodeLabels[nodeUpdates[1].nodeName]
    /\ published["test-driver-1"] # <<>>
    /\ namedDriverResources # atStart.ndr

(***************************************************************************)
(* Claims about getMachineUUIDs.                                           *)
(***************************************************************************)
\* getMachineUUIDs has run in this pass and ListProviderIDs did not fail
Enumerated == calls # <<>> /\ pc # "getMachineUUIDs" /\ ~(Len(calls) >= 2 /\ calls[2] = Failed)

\* C15: when the enumeration of the provider IDs has succeeded,
\* getMachineUUIDs does not fail: no lookup of a node name or machine UUID
\* ends the pass, every provider ID is looked up, and the map holds exactly
\* the entries whose node name and machine UUID were found.
C15_PartialResult ==
    Enumerated =>
        /\ FailedCall \notin {"FindNodeNameByProviderID", "FindMachineUUIDByProviderID"}
        /\ {calls[k][2] : k \in CallsOf(calls, "FindNodeNameByProviderID")} = {"p1", "p2"}
        /\ Cardinality(DOMAIN muuids) = Cardinality(Resolved(calls))

(***************************************************************************)
(* Claims about the loop.                                                  *)
(***************************************************************************)
\* a pass is executing
InPass == pc \notin {"idle", "stopped"}

C16_Step ==
    /\ (~InPass /\ InPass') => (pc = "idle" /\ pc' = "getMachineUUIDs")
    /\ (InPass /\ ~InPass') => (pc = "return" /\ pc' = "idle")
    /\ pc = "stopped" => pc' = "stopped"

\* C16: a pass starts only when no pass is executing, from the wait between
\* two passes, and a pass ends only by returning, to that wait; after a pass
\* has returned an error a further pass is started unless the loop has been
\* cancelled.
C16_PassesInTurn ==
    /\ [][C16_Step]_vars
    /\ (pc = "return" /\ err # NoErr) ~> (pc = "getMachineUUIDs" \/ pc = "stopped")

\* a pass has been started after the pass before it returned an error
C16_Witness ==
    /\ pc = "getMachineUUIDs"
    /\ prev.ran
    /\ prev.err # NoErr

\* C17: a credential that Token() returns without an error has not expired
\* at the instant the call read the clock, also when it is the cached
\* credential served after a failed refresh.
C17_StaleStillValid ==
    \A c \in Callers :
        (callers[c].pc = "done" /\ callers[c].err = NoErr /\ callers[c].ret # Nil)
            => callers[c].ret[1].Expiry > callers[c].now

(***************************************************************************)
(* Claims about a pass that follows a partial pass.                        *)
(***************************************************************************)
\* the pass before this one published and then failed in label sync, and this
\* pass has succeeded on the same data
AfterPartialPass ==
    /\ pc = "return"
    /\ err = NoErr
    /\ prev.ran
    /\ prev.published
    /\ prev.err = "failed to update node label"
    /\ SameData(prev.data, PassData)

\* C18: when a pass has published pools and then failed in label sync, and the
\* next pass succeeds with the same data, that pass changes no pool (no
\* generation is raised), publishes nothing, and leaves the node of every
\* machine with the fabric and size labels of the model it computed.
C18_Convergence ==
    AfterPartialPass =>
        /\ namedDriverResources = atStart.ndr
        /\ NothingPublished
        /\ \A i \in 1..Len(machines) : LabelsMatch(machines[i].nodeName, machines[i])

\* the partial pass updated n1 and failed on n2; the pass after it has set
\* the labels of n2
C18_Witness ==
    /\ AfterPartialPass
    /\ Len(machines) = 2
    /\ prev.updated # {}
    /\ \E n \in NodeNames :
          /\ n \notin prev.updated
          /\ (labelPrefix \o "/fabric") \notin DOMAIN atStart.nodeLabels[n]
          /\ (labelPrefix \o "/fabric") \in DOMAIN nodeLabels[n]

(***************************************************************************)
(* Claims about machines without a fabric ID.                              *)
(***************************************************************************)
\* the nodes whose machine the machines snapshot gives no fabric ID
NodesOffFabric == {n \in DOMAIN muuids : getFabricID(mList, muuids[n]) = Nil}

\* C19: a machine to which the machines snapshot gives no fabric ID is not in
\* the machine list of the pass, is the subject of no AvailableCount and no
\* NodeDetails query, and its node is neither read nor updated by label sync:
\* the node's labels are what they were when the pass began.
C19_Excluded ==
    \A n \in NodesOffFabric :
        /\ \A i \in 1..Len(machines) :
              machines[i].machineUUID # muuids[n] /\ machines[i].nodeName # n
        /\ \A k \in CallsOf(calls, "AvailableCount") \cup CallsOf(calls, "NodeDetails") \cup CallsOf(calls, "GetNode") :
              calls[k][2] \notin {muuids[n], n}
        /\ \A k \in 1..Len(nodeUpdates) : nodeUpdates[k].nodeName # n
        /\ nodeLabels[n] = atStart.nodeLabels[n]

\* a pass has succeeded and updated n2 while the machine of n1, whose node
\* carries the fabric label of an earlier pass, has no fabric ID
C19_Witness ==
    /\ pc = "return"
    /\ err = NoErr
    /\ NodesOffFabric = {"n1"}
    /\ UpdatedNodes(nodeUpdates) = {"n2"}
    /\ (labelPrefix \o "/fabric") \in DOMAIN nodeLabels["n1"]
    /\ CallsOf(calls, "NodeDetails") # {}

(***************************************************************************)
(* Claims about the queries of a pass.                                     *)
(***************************************************************************)
\* the fabric IDs of the machines of the pass
FabricsOfPass == {machines[i].fabricID[1] : i \in 1..Len(machines)}

\* the AvailableCount calls of the pass whose subject is on fabric f, for model mn
CountQueries(f, mn) ==
    {k \in CallsOf(calls, "AvailableCount") :
        getFabricID(mList, calls[k][2]) = <<f>> /\ calls[k][3] = mn}

\* C20: a pass calls ListMachines at most once; once it has the available
\* counts it has called ListMachines exactly once and AvailableCount exactly
\* once per fabric of its machines and configured model, and no more; every
\* machine's device of a model holds the count answered to the one query of
\* the machine's fabric for that model.
C20_OneQueryPerFabric ==
    /\ Cardinality(CallsOf(calls, "ListMachines")) <= 1
    /\ fabricFound # EmptyMap =>
          /\ Cardinality(CallsOf(calls, "ListMachines")) = 1
          /\ \A f \in FabricsOfPass : \A mn \in ModelNames(deviceInfos) :
                Cardinality(CountQueries(f, mn)) = 1
          /\ Cardinality(CallsOf(calls, "AvailableCount"))
                = Cardinality(FabricsOfPass) * Cardinality(ModelNames(deviceInfos))
          /\ \A i \in 1..Len(machines) : \A mn \in DOMAIN machines[i].deviceList :
                \A k \in CountQueries(machines[i].fabricID[1], mn) :
                    heap[machines[i].deviceList[mn]].availableDeviceCount = calls[k][4]

\* a pass with two machines on one fabric has succeeded: one query per model,
\* and both machines hold the count that was answered for "DEVICE 1"
C20_Witness ==
    /\ pc = "return"
    /\ err = NoErr
    /\ Len(machines) = 2
    /\ machines[1].fabricID = machines[2].fabricID
    /\ Cardinality(CallsOf(calls, "AvailableCount")) = Len(deviceInfos)
    /\ \A i \in 1..2 : heap[machines[i].deviceList["DEVICE 1"]].availableDeviceCount = MaxAvail

(***************************************************************************)
(* Claims about the bounds of a node group.                                *)
(***************************************************************************)
\* the node groups of the machines of the pass
GroupsOfPass == {machines[i].nodeGroupUUID : i \in 1..Len(machines)} \ {""}

\* the node group of the machine with UUID u in this pass
GroupOf(u) == machines[CHOOSE i \in 1..Len(machines) : machines[i].machineUUID = u].nodeGroupUUID

\* the NodeDetails calls of the pass whose subject is in node group ng, for model mn
BoundQueries(ng, mn) ==
    {k \in CallsOf(calls, "NodeDetails") : GroupOf(calls[k][2]) = ng /\ calls[k][3] = mn}

\* the bound (field "MinResSpecCount" or "MaxResSpecCount") that an answer
\* holding at most one resource spec returns for model mn
Returned(answer, mn, field) ==
    IF answer # <<>> /\ answer[1].Conditions[1].Value = mn THEN answer[1][field] ELSE Nil

\* C21: with the cluster manager in use, once the bounds have been overlaid,
\* NodeDetails has been called exactly once per node group of the pass and
\* model, and every machine of the group holds for the model the min and the
\* max that this one call returned: an unset bound stays unset (not zero), and
\* a returned min sets no max.
C21_OneQueryPerNodeGroup ==
    (cdiOptions.useCM /\ pc \in {"manageCDIResourceSlices", "manageCDINodeLabel", "return"}
                      /\ nodeGroupFound # EmptyMap) =>
        \A ng \in GroupsOfPass : \A mn \in ModelNames(deviceInfos) :
            /\ Cardinality(BoundQueries(ng, mn)) = 1
            /\ \A k \in BoundQueries(ng, mn) : \A i \in 1..Len(machines) :
                  machines[i].nodeGroupUUID = ng =>
                      /\ heap[machines[i].deviceList[mn]].minDeviceCount
                            = Returned(calls[k][4], mn, "MinResSpecCount")
                      /\ heap[machines[i].deviceList[mn]].maxDeviceCount
                            = Returned(calls[k][4], mn, "MaxResSpecCount")

\* two machines of one node group hold min 0 and no max after the group's one
\* query returned min 0 and no max
C21_Witness ==
    /\ pc = "return"
    /\ err = NoErr
    /\ Len(machines) = 2
    /\ machines[1].nodeGroupUUID = "g1" /\ machines[2].nodeGroupUUID = "g1"
    /\ Cardinality(CallsOf(calls, "NodeDetails")) = 1
    /\ \A i \in 1..2 : /\ heap[machines[i].deviceList["DEVICE 1"]].minDeviceCount = Ptr(0)
                        /\ heap[machines[i].deviceList["DEVICE 1"]].maxDeviceCount = Nil

(***************************************************************************)
(* Claims about label sync without the cluster manager.                    *)
(***************************************************************************)
FabricLabelKey == labelPrefix \o "/" \o "fabric"

\* C22: without the cluster manager (useCM false) a pass calls none of
\* ListNodeGroups, NodeGroupMembers and NodeDetails, and label sync changes at
\* most the fabric label of a node: every other label, the size-min and
\* size-max labels the node already carried included, is in every node update
\* and on the node what it was when the pass began.
C22_OnlyFabricLabel ==
    ~cdiOptions.useCM =>
        /\ CallsOf(calls, "ListNodeGroups") \cup CallsOf(calls, "NodeGroupMembers")
              \cup CallsOf(calls, "NodeDetails") = {}
        /\ \A n \in NodeNames :
              MapDelete(nodeLabels[n], FabricLabelKey) = MapDelete(atStart.nodeLabels[n], FabricLabelKey)
        /\ \A k \in 1..Len(nodeUpdates) :
              MapDelete(nodeUpdates[k].labels, FabricLabelKey)
                  = MapDelete(atStart.nodeLabels[nodeUpdates[k].nodeName], FabricLabelKey)

\* a pass without the cluster manager has moved the fabric label of n1 from
\* "2" to "1" and n1 still carries the size labels of the earlier run
C22_Witness ==
    /\ ~cdiOptions.useCM
    /\ pc = "return"
    /\ err = NoErr
    /\ "n1" \in UpdatedNodes(nodeUpdates)
    /\ atStart.nodeLabels["n1"][FabricLabelKey] = "2"
    /\ nodeLabels["n1"][FabricLabelKey] = "1"
    /\ nodeLabels["n1"]["cohdi.com/test-device-1-size-max"] = "2"
    /\ nodeLabels["n1"]["cohdi.com/test-device-1-size-min"] = "1"

(***************************************************************************)
(* Claims about the start and the end of the process.                      *)
(***************************************************************************)
DRAError == "not enabled feature gate of Dynamic Resource Allocation"

\* C23: when DRA is not enabled no ResourceSlice controller is ever started
\* and no pass ever runs; StartCDIManager returns the error of the feature
\* gate, and when the process ends on it (no signal was taken first) the exit
\* code is 1.
C23_RefusesWithoutDRA ==
    ~proc.dra =>
        /\ proc.controllers = {}
        /\ pc \in {"unstarted", "startController", "stopped", "exited"}
        /\ proc.killedAt \in {"", "unstarted", "startController", "stopped"}
        /\ calls = <<>>
        /\ pc = "stopped" => (proc.errChan = <<DRAError>> \/ proc.result = DRAError)
        /\ (proc.main = "exited" /\ ~proc.signalled /\ proc.killedAt # "")
              => (proc.result = DRAError /\ proc.exit = Ptr(1))

\* the process has ended with code 1 on the error of the feature gate
C23_Witness ==
    /\ ~proc.dra
    /\ proc.main = "exited"
    /\ proc.killedAt = "stopped"
    /\ proc.result = DRAError
    /\ proc.exit = Ptr(1)

C24_Step ==
    /\ proc.ctxDone => ~(pc # "getMachineUUIDs" /\ pc' = "getMachineUUIDs")
    /\ (proc.ctxDone /\ pc = "idle" /\ pc' # pc) => pc' \in {"stopped", "exited"}

\* C24: once the context is cancelled no pass is started and the only step of
\* the waiting loop is to end (StartCDIManager returns nil); the loop does end,
\* by that return or with the process; and a process that ends on a signal
\* ends with exit code 0.
C24_Shutdown ==
    /\ [][C24_Step]_vars
    /\ proc.ctxDone ~> (pc \in {"stopped", "exited"})
    /\ [](proc.signalled /\ proc.main = "exited" => proc.exit = Ptr(0))

\* after at least one pass a signal was taken, the loop ended, StartCDIManager
\* returned nil, and the process ended with code 0
C24_Witness ==
    /\ proc.signalled
    /\ prev.ran
    /\ proc.main = "exited"
    /\ proc.killedAt = "stopped"
    /\ proc.errChan = <<NoErr>>
    /\ proc.exit = Ptr(0)

\* the device entries of every pool of every driver
DeviceEntries ==
    UNION {UNION {LET devices == namedDriverResources[d].Pools[pn].Slices[1].Devices
                  IN  {devices[i] : i \in 1..Len(devices)} :
                  pn \in DOMAIN namedDriverResources[d].Pools} :
           d \in DOMAIN namedDriverResources}

Oversized == {i \in 1..Len(SecretFields) : im.secret.len[SecretFields[i]] >= 1000}

\* C25: with a secret whose fields are all below 1000 bytes (999 included) the
\* credential fetch succeeds and one IssueToken call carries the fields as
\* they are; with a field of 1000 bytes or more no IssueToken call is made and
\* Token() fails with the error of the first such field in the order
\* username, password, realm, client_id, client_secret.
C25_SecretBounds ==
    im.secret.kind = "data" =>
        /\ Oversized # {} =>
              /\ im.issueCalls = 0
              /\ im.token = Nil
              /\ im.pc = "done" =>
                    im.err = SecretFields[SetMin(Oversized)] \o " length exceeds the limitation"
        /\ (Oversized = {} /\ im.pc = "done") =>
              /\ im.issueCalls = 1
              /\ im.sent = im.secret.len
              /\ im.err \in {NoErr, "IM token API failed"}

\* a username of 999 bytes was accepted, and of the two oversized fields
\* password (1000) and realm (1001) the first made Token() fail
C25_Witness ==
    /\ im.pc = "done"
    /\ im.secret.kind = "data"
    /\ im.secret.len["username"] = 999
    /\ im.imSecret["username"] = 999
    /\ im.secret.len["password"] = 1000
    /\ im.secret.len["realm"] = 1001
    /\ im.err = "password length exceeds the limitation"
    /\ im.issueCalls = 0

(***************************************************************************)
(* Claims about the stored pools over many passes.                         *)
(***************************************************************************)
\* the pool was created or regenerated by this step
PoolWritten(d, pn) ==
    \/ pn \notin DOMAIN namedDriverResources[d].Pools
    \/ namedDriverResources'[d].Pools[pn] # namedDriverResources[d].Pools[pn]

\* the pass under way observes the fabric of this pool
Observed(d, pn) == \E o \in ObservedPools : o.driverName = d /\ o.poolName = pn

C27_Step ==
    /\ ~PublishStep => namedDriverResources' = namedDriverResources
    /\ PublishStep =>
          \A d \in DOMAIN namedDriverResources' :
              \A pn \in DOMAIN namedDriverResources'[d].Pools :
                  PoolWritten(d, pn) =>
                      /\ Observed(d, pn)
                      /\ \A o \in ObservedPools :
                            (o.driverName = d /\ o.poolName = pn) =>
                                Len(namedDriverResources'[d].Pools[pn].Slices[1].Devices) = o.count

C27_Shape ==
    \A d \in DOMAIN namedDriverResources :
        \A pn \in DOMAIN namedDriverResources[d].Pools :
            /\ namedDriverResources[d].Pools[pn].Generation >= 1
            /\ Len(namedDriverResources[d].Pools[pn].Slices) = 1

\* C27: in every state, after successful and failed passes alike, every stored
\* pool has a generation of at least 1 and exactly one slice; the pools are
\* written only by the manageCDIResourceSlices step, and a pool that step
\* creates or regenerates gets as many device entries as the available count
\* the pass observed for it, which it keeps until it is regenerated.
C27_StoredPools == [][C27_Step]_vars /\ []C27_Shape

\* after a failed pass a pool stands at generation 2 with the one device
\* entry of the pass that regenerated it
C27_Witness ==
    /\ pc = "idle"
    /\ prev.ran
    /\ prev.err # NoErr
    /\ \E d \in DOMAIN namedDriverResources :
          \E pn \in DOMAIN namedDriverResources[d].Pools :
              /\ namedDriverResources[d].Pools[pn].Generation = 2
              /\ Len(namedDriverResources[d].Pools[pn].Slices[1].Devices) = 1

C28_Step ==
    /\ \A d \in DOMAIN namedDriverResources :
          \A pn \in DOMAIN namedDriverResources[d].Pools :
              /\ d \in DOMAIN namedDriverResources'
              /\ pn \in DOMAIN namedDriverResources'[d].Pools
              /\ (PublishStep /\ ~Observed(d, pn)) =>
                    /\ namedDriverResources'[d].Pools[pn] = namedDriverResources[d].Pools[pn]
                    /\ \A k \in 1..Len(published'[d]) :
                          /\ pn \in DOMAIN published'[d][k].Pools
                          /\ published'[d][k].Pools[pn] = namedDriverResources[d].Pools[pn]
              /\ ~PublishStep =>
                    namedDriverResources'[d].Pools[pn] = namedDriverResources[d].Pools[pn]

\* C28: a pool that exists stays in the pool set of its driver at every step;
\* the manageCDIResourceSlices step of a pass that has no machine on the
\* pool's fabric leaves the pool as it is and includes it, unchanged, in the
\* Update call it makes for the driver, and no other step changes a pool.
C28_PoolsStay == [][C28_Step]_vars

\* the pass has published driver 1 with a pool of fabric 1 it regenerated and
\* the pool of fabric 2, on which it saw no machine
C28_Witness ==
    /\ pc = "manageCDINodeLabel"
    /\ Len(published["test-driver-1"]) = 1
    /\ "test-device-1-fabric2" \in DOMAIN published["test-driver-1"][1].Pools
    /\ ~Observed("test-driver-1", "test-device-1-fabric2")
    /\ \E pn \in DOMAIN namedDriverResources["test-driver-1"].Pools :
          Observed("test-driver-1", pn)

(***************************************************************************)
(* Claims about the node lookup of label sync.                             *)
(***************************************************************************)
\* this step is one iteration of the loop of manageCDINodeLabel
LabelStep == pc = "manageCDINodeLabel" /\ idx <= Len(machines) /\ Len(calls') > Len(calls)

C29_Step ==
    LabelStep =>
        LET lookup == calls'[Len(calls) + 1]
        IN  /\ lookup[1] = "GetNode"
            /\ lookup[2] = machines[idx].nodeName
            /\ (Len(lookup) = 3 /\ lookup[3] = "nil") =>
                  /\ nodeUpdates' = nodeUpdates
                  /\ nodeLabels' = nodeLabels
                  /\ err' = NoErr
                  /\ idx' = idx + 1
                  /\ pc' = IF idx < Len(machines) THEN "manageCDINodeLabel" ELSE "return"
            /\ Len(lookup) = 2 =>
                  /\ nodeUpdates' = nodeUpdates
                  /\ nodeLabels' = nodeLabels
                  /\ err' = "failed to get node"
                  /\ pc' = "return"

\* C29: an iteration of label sync whose GetNode returns no node and no error
\* issues no node update, changes no label, sets no error and moves on to the
\* next machine (or ends the pass without error after the last one); an
\* iteration whose GetNode returns an error ends the pass with that error,
\* without a node update.
C29_NodeLookup == [][C29_Step]_vars

\* the node of the first machine was not there, the node of the second was
\* updated, and the pass returned without error
C29_Witness ==
    /\ pc = "return"
    /\ err = NoErr
    /\ Len(NodeReads) = 2
    /\ NodeReads[1][3] = "nil"
    /\ NodeReads[2][3] = "node"
    /\ Len(nodeUpdates) = 1
    /\ nodeUpdates[1].nodeName = NodeReads[2][2]
    /\ nodeUpdates[1].ok

(***************************************************************************)
(* Claims about the node group of a machine.                               *)
(***************************************************************************)
\* the positions, in the order ListNodeGroups returned the groups, of the
\* groups whose member list holds machine UUID u
GroupsHolding(u) ==
    {k \in 1..Len(ngInfos) : \E j \in 1..Len(ngInfos[k].MachineIDs) : ngInfos[k].MachineIDs[j] = u}

Assembled ==
    pc \in {"getAvailableNums", "copyDeviceList", "getMinMaxNums", "copyMinMax",
            "manageCDIResourceSlices", "manageCDINodeLabel", "return"}

\* C30: once the machines of a pass are assembled, the member lists were read
\* in the order of ListNodeGroups, every machine carries one node-group UUID,
\* that of the last group in this order whose member list holds the machine
\* (none if no list holds it), and after the overlay its bounds are those the
\* NodeDetails query of that group returned.
C30_LastGroupWins ==
    (cdiOptions.useCM /\ Assembled) =>
        /\ \A k \in 1..Len(ngInfos) : ngInfos[k].UUID = nodeGroups[k].UUID
        /\ \A i \in 1..Len(machines) :
              LET holding == GroupsHolding(machines[i].machineUUID)
                  last == nodeGroups[SetMax(holding)].UUID
              IN  /\ holding = {} => machines[i].nodeGroupUUID = ""
                  /\ holding # {} =>
                        /\ machines[i].nodeGroupUUID = last
                        /\ (pc \in {"manageCDIResourceSlices", "manageCDINodeLabel", "return"}
                               /\ nodeGroupFound # EmptyMap) =>
                              \A mn \in ModelNames(deviceInfos) :
                                  \E q \in CallsOf(calls, "NodeDetails") :
                                      /\ calls[q][3] = mn
                                      /\ GroupsHolding(calls[q][2]) # {}
                                      /\ last = nodeGroups[SetMax(GroupsHolding(calls[q][2]))].UUID
                                      /\ heap[machines[i].deviceList[mn]].minDeviceCount
                                            = Returned(calls[q][4], mn, "MinResSpecCount")
                                      /\ heap[machines[i].deviceList[mn]].maxDeviceCount
                                            = Returned(calls[q][4], mn, "MaxResSpecCount")

\* machine u2 is in the lists of both groups, listed as g2 then g1: it carries
\* g1 and the bounds 1 and 2 returned for g1 by the one query of the pass
C30_Witness ==
    /\ pc = "return"
    /\ nodeGroups[1].UUID = "g2" /\ nodeGroups[2].UUID = "g1"
    /\ GroupsHolding("u2") = {1, 2}
    /\ \E i \in 1..Len(machines) :
          /\ machines[i].machineUUID = "u2"
          /\ machines[i].nodeGroupUUID = "g1"
          /\ heap[machines[i].deviceList["DEVICE 1"]].minDeviceCount = Ptr(1)
          /\ heap[machines[i].deviceList["DEVICE 1"]].maxDeviceCount = Ptr(2)

=============================================================================
